---- MODULE Spec2Model ----
(***************************************************************************)
(* simple-sops: the rule store (.sops.yaml bookkeeping), the key locator,   *)
(* the key aggregator and the batch operations of the CLI.                 *)
(*                                                                         *)
(* Go strings are modelled as sequences of one-character strings, so that  *)
(* strings.Index, strings.Contains and slicing are computed, not assumed.  *)
(* A SopsConfig is the sequence of its CreationRules.                      *)
(***************************************************************************)
EXTENDS Integers, Sequences, FiniteSets, TLC

VARIABLES config, cfgFile, last, files, batch

vars == <<config, cfgFile, last, files, batch>>

---------------------------------------------------------------------------
(* Bounds *)

\* number of distinct literal file names the operations are called with
NumFiles == 2

\* longest rule sequence a hand-written rule file holds at start-up
MaxRules == 3

\* most lines a key file holds
MaxLines == 2

\* most 1Password items a call is given
MaxItems == 2

\* most key files a call is given
MaxKeyFiles == 2

\* most arguments of a run command line
MaxArgs == 4

\* all sequences over S of length at most n
SeqsUpTo(S, n) == UNION { [1..m -> S] : m \in 0..n }

---------------------------------------------------------------------------
(* Strings *)

\* strings.Index(s, c): 0-based index of the first c in s, -1 when absent
Index(s, c) ==
    IF \E i \in 1..Len(s) : s[i] = c
    THEN (CHOOSE i \in 1..Len(s) : s[i] = c /\ \A j \in 1..(i - 1) : s[j] # c) - 1
    ELSE -1

\* strings.Contains(s, c)
Contains(s, c) == \E i \in 1..Len(s) : s[i] = c

\* the empty Go string
Empty == <<>>

\* wildcardPattern := `.*\.(ya?ml|json|ini|env)`
wildcardPattern ==
    <<".", "*", "\\", ".", "(", "y", "a", "?", "m", "l", "|",
      "j", "s", "o", "n", "|", "i", "n", "i", "|", "e", "n", "v", ")">>

Letters == <<"a", "b", "c", "d">>

\* literal base names: a.env, b.env, ...
FileNames == { <<Letters[i], ".", "e", "n", "v">> : i \in 1..NumFiles }

\* names handed to AddCreationRule / RemoveCreationRule as filepath.Base(file);
\* a file may itself be named like the wildcard pattern
RuleNames == FileNames \cup {wildcardPattern}

\* recipients strings as strings.Join(keys, ",") builds them: one key, two keys
Recipients == { <<"k">>, <<"k", ",", "j">> }

\* encrypted_regex values: none, or the predefined "All values" pattern
Regexes == { Empty, <<".", "*">> }

\* outcomes of os.Stat on a path
StatOutcomes == {"ok", "ENOENT", "EACCES"}

\* os.Stat(path) on a file system described by stat; no file has any other name
Stat(stat, path) == IF path \in DOMAIN stat THEN stat[path] ELSE "ENOENT"

IsNotExistAnyError(outcome) == outcome # "ok"

\* os.IsNotExist(err)
IsNotExist(outcome) == outcome = "ENOENT"

AllPresent == [n \in FileNames |-> "ok"]

---------------------------------------------------------------------------
(* CreationRule and the operations on a SopsConfig *)

CreationRule(pathRegex, age, encryptedRegex) ==
    [PathRegex |-> pathRegex, Age |-> age, EncryptedRegex |-> encryptedRegex]

\* index of the first rule whose PathRegex equals filename, 0 when none
FirstMatch(rules, filename) ==
    IF \E i \in 1..Len(rules) : rules[i].PathRegex = filename
    THEN CHOOSE i \in 1..Len(rules) :
            /\ rules[i].PathRegex = filename
            /\ \A j \in 1..(i - 1) : rules[j].PathRegex # filename
    ELSE 0

\* first loop of AddCreationRule: update the first matching rule, then break
UpdateRule(rules, filename, publicKey, encryptedRegex) ==
    LET i == FirstMatch(rules, filename) IN
    IF i = 0 THEN rules
    ELSE [rules EXCEPT ![i] =
            [@ EXCEPT !.Age = publicKey,
                      !.EncryptedRegex =
                          IF encryptedRegex # Empty THEN encryptedRegex ELSE @]]

RuleExistsNever(rules, filename) == FALSE

\* second loop of AddCreationRule: ruleExists
RuleExists(rules, filename) ==
    \E i \in 1..Len(rules) : rules[i].PathRegex = filename

InsertBack(rule, rules) == Append(rules, rule)

\* append([]CreationRule{rule}, config.CreationRules...)
InsertFront(rule, rules) == <<rule>> \o rules

InsertRuleNoRegex(rules, filename, publicKey, encryptedRegex) ==
    IF ~RuleExists(rules, filename)
    THEN InsertFront(CreationRule(filename, publicKey, Empty), rules)
    ELSE rules

\* the new rule built when none exists, placed at the beginning of the list
InsertRule(rules, filename, publicKey, encryptedRegex) ==
    IF ~RuleExists(rules, filename)
    THEN InsertFront(CreationRule(filename, publicKey, encryptedRegex), rules)
    ELSE rules

HasWildcardAlways(rules) == TRUE

\* third loop of AddCreationRule: hasWildcard
HasWildcard(rules) ==
    \E i \in 1..Len(rules) : rules[i].PathRegex = wildcardPattern

EnsureWildcardAlways(rules, age) ==
    Append(rules, CreationRule(wildcardPattern, age, Empty))

\* append the wildcard rule if it doesn't exist
EnsureWildcard(rules, age) ==
    IF ~HasWildcard(rules)
    THEN Append(rules, CreationRule(wildcardPattern, age, Empty))
    ELSE rules

FirstKeyWhole(publicKeys) == publicKeys

\* firstKey := publicKeys; if idx := strings.Index(publicKeys, ","); idx > 0 { firstKey = publicKeys[:idx] }
FirstKey(publicKeys) ==
    LET idx == Index(publicKeys, ",") IN
    IF idx > 0 THEN SubSeq(publicKeys, 1, idx) ELSE publicKeys

AddCreationRule(rules, filename, publicKey, encryptedRegex) ==
    EnsureWildcard(
        InsertRule(UpdateRule(rules, filename, publicKey, encryptedRegex),
                   filename, publicKey, encryptedRegex),
        publicKey)

AddCreationRuleWithMultipleKeys(rules, filename, publicKeys, encryptedRegex) ==
    EnsureWildcard(
        InsertRule(UpdateRule(rules, filename, publicKeys, encryptedRegex),
                   filename, publicKeys, encryptedRegex),
        FirstKey(publicKeys))

RemoveCreationRuleAndRest(rules, filename) ==
    LET i == FirstMatch(rules, filename) IN
    IF i = 0
    THEN [rules |-> rules, err |-> TRUE]
    ELSE [rules |-> SubSeq(rules, 1, i - 1), err |-> FALSE]

\* RemoveCreationRule: drop the first rule whose PathRegex equals filename
RemoveCreationRule(rules, filename) ==
    LET i == FirstMatch(rules, filename) IN
    IF i = 0
    THEN [rules |-> rules, err |-> TRUE]
    ELSE [rules |-> SubSeq(rules, 1, i - 1) \o SubSeq(rules, i + 1, Len(rules)),
          err   |-> FALSE]

\* strings.Contains(rule.PathRegex, "*") || strings.Contains(rule.PathRegex, "?")
IsGlob(pathRegex) == Contains(pathRegex, "*") \/ Contains(pathRegex, "?")

\* the loop of CleanOrphanedRules over the rules, with its two accumulators
RECURSIVE CleanLoop(_, _, _, _)
CleanLoop(rules, stat, cleanedRules, orphanedCount) ==
    IF rules = <<>>
    THEN [rules |-> cleanedRules, count |-> orphanedCount]
    ELSE LET rule == Head(rules) IN
         IF IsGlob(rule.PathRegex)
         THEN CleanLoop(Tail(rules), stat, Append(cleanedRules, rule), orphanedCount)
         ELSE IF IsNotExist(Stat(stat, rule.PathRegex))
              THEN CleanLoop(Tail(rules), stat, cleanedRules, orphanedCount + 1)
              ELSE CleanLoop(Tail(rules), stat, Append(cleanedRules, rule), orphanedCount)

CleanOrphanedRules(rules, stat) == CleanLoop(rules, stat, <<>>, 0)

---------------------------------------------------------------------------
(* The persisted rule file *)

\* configPath does not exist
AbsentFile == [kind |-> "absent", entries |-> <<>>]

\* a zero-byte file, as a failed write leaves behind
EmptyFile == [kind |-> "empty", entries |-> <<>>]

\* content that is not a YAML document of the expected shape
GarbageFile == [kind |-> "garbage", entries |-> <<>>]

\* yaml.Marshal of one CreationRule: the fields in struct order under their
\* yaml tags, encrypted_regex left out when empty (omitempty)
MarshalRule(rule) ==
    << <<"path_regex", rule.PathRegex>>, <<"age", rule.Age>> >>
    \o (IF rule.EncryptedRegex # Empty
        THEN << <<"encrypted_regex", rule.EncryptedRegex>> >>
        ELSE <<>>)

\* yaml.Marshal(config): creation_rules, one entry per rule, in order
Marshal(rules) ==
    [kind |-> "yaml", entries |-> [i \in 1..Len(rules) |-> MarshalRule(rules[i])]]

\* value of the mapping entry under key, the zero value "" when the key is missing
Field(entry, key) ==
    IF \E i \in 1..Len(entry) : entry[i][1] = key
    THEN entry[CHOOSE i \in 1..Len(entry) : entry[i][1] = key][2]
    ELSE Empty

UnmarshalRuleWrongTag(entry) ==
    CreationRule(Field(entry, "path_regex"), Field(entry, "age"),
                 Field(entry, "encrypted-regex"))

\* yaml.Unmarshal of one entry into a CreationRule, by yaml tag
UnmarshalRule(entry) ==
    CreationRule(Field(entry, "path_regex"), Field(entry, "age"),
                 Field(entry, "encrypted_regex"))

\* yaml.Unmarshal(data, &config) of a well-formed or zero-byte file
Unmarshal(file) ==
    [i \in 1..Len(file.entries) |-> UnmarshalRule(file.entries[i])]

\* LoadSopsConfig(configPath): the config it returns and whether it returned an
\* error; readOk tells whether os.ReadFile succeeds on an existing file
LoadSopsConfig(file, readOk) ==
    IF file.kind = "absent" THEN [rules |-> <<>>, err |-> FALSE]
    ELSE IF ~readOk THEN [rules |-> <<>>, err |-> TRUE]
    ELSE IF file.kind = "garbage" THEN [rules |-> <<>>, err |-> TRUE]
    ELSE [rules |-> Unmarshal(file), err |-> FALSE]

\* what a failed os.WriteFile can leave at configPath: the old content when
\* the open failed, a truncated file, or a partial document
AfterFailedWrite(file) == {file, EmptyFile, GarbageFile}

\* what the last operation was, with its arguments and results
Op(op, filename, keys, regex, ok, count, stat) ==
    [op |-> op, filename |-> filename, keys |-> keys, regex |-> regex,
     ok |-> ok, count |-> count, stat |-> stat, io |-> "ok"]

\* a Save or Load, with the I/O outcome it met
StoreOp(op, ok, io) ==
    [Op(op, Empty, Empty, Empty, ok, 0, AllPresent) EXCEPT !.io = io]

NoOp == Op("none", Empty, Empty, Empty, TRUE, 0, AllPresent)

\* the data files on disk, none of them encrypted yet
AllPlain == [n \in FileNames |-> "plain"]

\* no batch operation is running
NoBatch == [kind |-> "none", pc |-> "idle", prepared |-> FALSE]

---------------------------------------------------------------------------
(* Rule store operations applied to one in-memory SopsConfig, from empty *)

InitRules ==
    /\ config = <<>>
    /\ cfgFile = AbsentFile
    /\ last = NoOp
    /\ files = AllPlain
    /\ batch = NoBatch

AddRule ==
    \E filename \in RuleNames, publicKey \in Recipients, encryptedRegex \in Regexes :
        /\ config' = AddCreationRule(config, filename, publicKey, encryptedRegex)
        /\ last' = Op("add", filename, publicKey, encryptedRegex, TRUE, 0, AllPresent)
        /\ UNCHANGED <<cfgFile, files, batch>>

AddRuleMulti ==
    \E filename \in RuleNames, publicKeys \in Recipients, encryptedRegex \in Regexes :
        /\ config' = AddCreationRuleWithMultipleKeys(config, filename, publicKeys, encryptedRegex)
        /\ last' = Op("addMulti", filename, publicKeys, encryptedRegex, TRUE, 0, AllPresent)
        /\ UNCHANGED <<cfgFile, files, batch>>

RemoveRule ==
    \E filename \in RuleNames :
        LET res == RemoveCreationRule(config, filename) IN
        /\ config' = res.rules
        /\ last' = Op("remove", filename, Empty, Empty, ~res.err, 0, AllPresent)
        /\ UNCHANGED <<cfgFile, files, batch>>

\* CleanOrphanedRules(config) on a file system where os.Stat answers with one
\* of outcomes for each file name
PruneWith(outcomes) ==
    \E stat \in [FileNames -> outcomes] :
        LET res == CleanOrphanedRules(config, stat) IN
        /\ config' = res.rules
        /\ last' = Op("clean", Empty, Empty, Empty, TRUE, res.count, stat)
        /\ UNCHANGED <<cfgFile, files, batch>>

\* every file is present or absent; a file os.Stat cannot examine keeps its
\* rule as a present file does and is left to PruneAnyStat
Prune == PruneWith({"ok", "ENOENT"})

\* os.Stat may also fail with an error other than ENOENT
PruneAnyStat == PruneWith(StatOutcomes)

NextRules == AddRule \/ AddRuleMulti \/ RemoveRule \/ Prune

SpecRules == InitRules /\ [][NextRules]_vars

---------------------------------------------------------------------------
(* Properties of the rule store *)

IsAdd(o) == o.op \in {"add", "addMulti"}

\* the AddRule variant an operation record names, applied to rules
ApplyAdd(o, rules) ==
    IF o.op = "add"
    THEN AddCreationRule(rules, o.filename, o.keys, o.regex)
    ELSE AddCreationRuleWithMultipleKeys(rules, o.filename, o.keys, o.regex)

\* rules holds a rule whose pathPattern is name
HoldsRule(rules, name) == \E i \in 1..Len(rules) : rules[i].PathRegex = name

WildcardCount(rules) ==
    Cardinality({ i \in 1..Len(rules) : rules[i].PathRegex = wildcardPattern })

\* recipients of the wildcard rule
WildcardAge(rules) ==
    rules[CHOOSE i \in 1..Len(rules) : rules[i].PathRegex = wildcardPattern].Age

\* C1: AddRule is idempotent, in both variants: whatever RuleFile an AddRule
\* has just been applied to and whatever its filename, recipients and
\* fieldsPattern, applying it again with the same arguments leaves the
\* RuleFile as the first application made it.
C1_AddRuleIdempotent ==
    IsAdd(last) => ApplyAdd(last, config) = config

\* an AddRule with a fieldsPattern has run for a file on a RuleFile that holds
\* further rules
C1_Witness ==
    /\ IsAdd(last)
    /\ Len(config) >= 3
    /\ last.filename \in FileNames
    /\ last.regex # Empty
    /\ config[1].PathRegex # last.filename

\* C2 (as claimed): after every AddRule the RuleFile holds a wildcard rule, and
\* one AddRule on the empty RuleFile yields exactly two rules.
C2_WildcardAfterAdd_Original ==
    [][IsAdd(last') =>
          /\ HoldsRule(config', wildcardPattern)
          /\ (config = <<>> => Len(config') = 2)]_vars

\* C2 (amended): after every AddRule the RuleFile holds a wildcard rule; one
\* AddRule on the empty RuleFile yields exactly two rules when filename is not
\* the wildcard pattern, and exactly one rule, the wildcard rule, when it is.
C2_WildcardAfterAdd ==
    [][IsAdd(last') =>
          /\ HoldsRule(config', wildcardPattern)
          /\ (config = <<>> =>
                 Len(config') = IF last'.filename = wildcardPattern THEN 1 ELSE 2)]_vars

\* AddRule was called with the wildcard pattern as filename and the RuleFile
\* holds that rule alone, carrying the fieldsPattern of the call
C2_Witness ==
    /\ IsAdd(last)
    /\ last.filename = wildcardPattern
    /\ last.regex # Empty
    /\ config = <<CreationRule(wildcardPattern, last.keys, last.regex)>>

\* C3: no two rules of a reachable RuleFile have the same pathPattern.
C3_UniquePatterns ==
    \A i, j \in 1..Len(config) :
        i # j => config[i].PathRegex # config[j].PathRegex

\* an AddRule for a file that already had a rule ran on a full RuleFile
C3_Witness ==
    /\ IsAdd(last)
    /\ Len(config) = NumFiles + 1
    /\ last.filename \in FileNames
    /\ config[1].PathRegex # last.filename

\* C4: whenever a non-wildcard rule exists, exactly one wildcard rule exists.
C4_ExactlyOneWildcard ==
    (\E i \in 1..Len(config) : config[i].PathRegex # wildcardPattern)
        => WildcardCount(config) = 1

\* C5: a wildcard rule, when present, is the last rule of the sequence.
C5_WildcardLast ==
    \A i \in 1..Len(config) :
        config[i].PathRegex = wildcardPattern => i = Len(config)

\* C6 (as claimed): after any AddRule(filename, ...) for a file, insert or
\* update, the rule for filename is the first rule of the sequence.
C6_TouchedFirst_Original ==
    [][(IsAdd(last') /\ last'.filename \in FileNames) =>
          config'[1].PathRegex = last'.filename]_vars

\* C6 (amended): after an AddRule(filename, ...) that found no rule for
\* filename the new rule is the first of the sequence; an AddRule that found
\* one leaves every rule it found, the updated one included, at its position.
C6_TouchedFirst ==
    [][IsAdd(last') =>
          IF ~HoldsRule(config, last'.filename)
          THEN config'[1].PathRegex = last'.filename
          ELSE /\ Len(config') >= Len(config)
               /\ \A i \in 1..Len(config) :
                      config'[i].PathRegex = config[i].PathRegex]_vars

\* an AddRule put its new rule in front of an older file rule
C6_Witness ==
    /\ IsAdd(last)
    /\ Len(config) >= 3
    /\ config[1] = CreationRule(last.filename, last.keys, last.regex)
    /\ config[2].PathRegex \in FileNames
    /\ config[2].Age # last.keys

\* C7 (as claimed): after any AddRule the wildcard rule's recipients are the
\* first public key of that call, whether the wildcard rule was created by the
\* call or existed before it.
C7_WildcardRecipients_Original ==
    [][IsAdd(last') =>
          /\ HoldsRule(config', wildcardPattern)
          /\ WildcardAge(config') =
                 IF last'.op = "add" \/ Index(last'.keys, ",") < 0
                 THEN last'.keys
                 ELSE SubSeq(last'.keys, 1, Index(last'.keys, ","))]_vars

\* C7 (amended): an AddRule that finds no wildcard rule creates one whose
\* recipients are the supplied recipients (single-recipient variant) or their
\* part before the first comma (multi-recipient variant); an AddRule that
\* finds a wildcard rule leaves its recipients as they were.  When filename is
\* the wildcard pattern itself the wildcard rule is the file rule and gets the
\* supplied recipients in full.
C7_WildcardRecipients ==
    [][IsAdd(last') =>
          /\ HoldsRule(config', wildcardPattern)
          /\ WildcardAge(config') =
                 IF last'.filename = wildcardPattern THEN last'.keys
                 ELSE IF HoldsRule(config, wildcardPattern) THEN WildcardAge(config)
                 ELSE IF last'.op = "add" \/ Index(last'.keys, ",") <= 0
                      THEN last'.keys
                      ELSE SubSeq(last'.keys, 1, Index(last'.keys, ","))]_vars

\* an AddRule for a file changed that file's recipients while the wildcard
\* rule kept the recipients of an earlier call
C7_Witness ==
    /\ IsAdd(last)
    /\ last.filename \in FileNames
    /\ HoldsRule(config, wildcardPattern)
    /\ Len(last.keys) = 1
    /\ Len(WildcardAge(config)) > 1

\* C10 (as claimed): AddRule on a RuleFile with neither a rule for filename
\* nor a wildcard rule yields [new rule] ++ previous rules ++ [wildcard rule],
\* the wildcard rule carrying the recipients verbatim (single) or the first
\* comma-separated recipient (multi).
C10_InsertAndAppend_Original ==
    [][(IsAdd(last') /\ ~HoldsRule(config, last'.filename) /\ ~HoldsRule(config, wildcardPattern)) =>
          config' = <<CreationRule(last'.filename, last'.keys, last'.regex)>>
                    \o config
                    \o <<CreationRule(wildcardPattern,
                            IF last'.op = "add" \/ Index(last'.keys, ",") < 0
                            THEN last'.keys
                            ELSE SubSeq(last'.keys, 1, Index(last'.keys, ",")),
                            Empty)>>]_vars

\* C10 (amended): the same, for a filename other than the wildcard pattern;
\* with the wildcard pattern as filename the result is [new rule] ++ previous
\* rules and no further wildcard rule is appended.
C10_InsertAndAppend ==
    [][(IsAdd(last') /\ ~HoldsRule(config, last'.filename) /\ ~HoldsRule(config, wildcardPattern)) =>
          config' = <<CreationRule(last'.filename, last'.keys, last'.regex)>>
                    \o config
                    \o (IF last'.filename = wildcardPattern THEN <<>>
                        ELSE <<CreationRule(wildcardPattern,
                                  IF last'.op = "add" \/ Index(last'.keys, ",") <= 0
                                  THEN last'.keys
                                  ELSE SubSeq(last'.keys, 1, Index(last'.keys, ",")),
                                  Empty)>>)]_vars

\* the multi-recipient AddRule ran with two keys on the empty RuleFile: the
\* file rule has both, the appended wildcard rule the first only
C10_Witness ==
    /\ last.op = "addMulti"
    /\ last.filename \in FileNames
    /\ Index(last.keys, ",") > 0
    /\ config = <<CreationRule(last.filename, last.keys, last.regex),
                  CreationRule(wildcardPattern, <<"k">>, Empty)>>

\* C11: an AddRule on a RuleFile that already has a rule for filename replaces
\* that rule's recipients by the supplied value, replaces its fieldsPattern
\* only when a non-empty one is supplied, and leaves the position of that
\* rule, the number of rules and every other non-wildcard rule unchanged.
C11_UpdateFrame ==
    [][(IsAdd(last') /\ HoldsRule(config, last'.filename)) =>
          /\ Len(config') = Len(config)
          /\ \A i \in 1..Len(config) :
                IF config[i].PathRegex = last'.filename
                THEN /\ i <= Len(config')
                     /\ config'[i].PathRegex = last'.filename
                     /\ config'[i].Age = last'.keys
                     /\ config'[i].EncryptedRegex =
                            IF last'.regex # Empty THEN last'.regex
                            ELSE config[i].EncryptedRegex
                ELSE config[i].PathRegex # wildcardPattern =>
                         (i <= Len(config') /\ config'[i] = config[i])]_vars

\* C12: RemoveRule(ruleFile, filename) removes exactly the one rule whose
\* pathPattern equals filename and leaves all other rules and their order
\* unchanged; when no rule has that pathPattern it fails with RuleNotFound
\* and the RuleFile is unchanged.
C12_RemoveExact ==
    [][last'.op = "remove" =>
          LET Other(r) == r.PathRegex # last'.filename IN
          IF HoldsRule(config, last'.filename)
          THEN /\ last'.ok
               /\ config' = SelectSeq(config, Other)
               /\ Len(config') = Len(config) - 1
          ELSE /\ ~last'.ok
               /\ config' = config]_vars

\* RemoveRule took a file's rule out of a RuleFile that keeps another file's
\* rule in front of the wildcard rule
C12_Witness ==
    /\ last.op = "remove"
    /\ last.ok
    /\ last.filename \in FileNames
    /\ Len(config) >= 2
    /\ config[1].PathRegex \in FileNames
    /\ config[Len(config)].PathRegex = wildcardPattern

---------------------------------------------------------------------------
(* clean-config on a rule file as a user may have written it *)

\* path_regex values a hand-written rule file holds besides file names
QuestionPattern == <<"c", "?">>

StarPattern == <<"s", "/", ".", "*">>

CleanPatterns == FileNames \cup {wildcardPattern, QuestionPattern, StarPattern}

CleanRuleSet == { CreationRule(p, <<"k">>, Empty) : p \in CleanPatterns }

InitClean ==
    /\ config \in SeqsUpTo(CleanRuleSet, MaxRules)
    /\ cfgFile = AbsentFile
    /\ last = NoOp
    /\ files = AllPlain
    /\ batch = NoBatch

NextClean == PruneAnyStat

SpecClean == InitClean /\ [][NextClean]_vars

\* C8: Prune removes exactly the rules whose pathPattern contains neither '*'
\* nor '?' and whose file is absent; rules with '*' or '?' stay whatever the
\* file system holds, the rules kept keep their order, and the count returned
\* is the number of rules removed.
C8_PruneExact ==
    [][last'.op = "clean" =>
          LET Kept(r) == \/ Contains(r.PathRegex, "*")
                         \/ Contains(r.PathRegex, "?")
                         \/ Stat(last'.stat, r.PathRegex) # "ENOENT"
          IN /\ config' = SelectSeq(config, Kept)
             /\ last'.count =
                    Cardinality({ i \in 1..Len(config) : ~Kept(config[i]) })]_vars

\* Prune removed one rule and kept a literal rule whose file cannot be
\* examined, followed by a rule with '?' and no '*'
C8_Witness ==
    /\ last.op = "clean"
    /\ last.count = 1
    /\ Len(config) = 2
    /\ config[1].PathRegex \in FileNames
    /\ last.stat[config[1].PathRegex] = "EACCES"
    /\ config[2].PathRegex = QuestionPattern

---------------------------------------------------------------------------
(* Save and Load of the rule file *)

StoreRuleSet ==
    { CreationRule(p, <<"k">>, r) :
          p \in {<<"a", ".", "e", "n", "v">>, wildcardPattern}, r \in Regexes }

InitStore ==
    /\ config \in SeqsUpTo(StoreRuleSet, MaxRules)
    /\ cfgFile \in {AbsentFile, GarbageFile}
    /\ last = NoOp
    /\ files = AllPlain
    /\ batch = NoBatch

\* SaveSopsConfig(configPath, config)
SaveConfig ==
    \E outcome \in {"ok", "mkdirFail", "writeFail"} :
        /\ cfgFile' \in
              CASE outcome = "ok"        -> {Marshal(config)}
                [] outcome = "mkdirFail" -> {cfgFile}
                [] outcome = "writeFail" -> AfterFailedWrite(cfgFile)
        /\ last' = StoreOp("save", outcome = "ok", outcome)
        /\ UNCHANGED <<config, files, batch>>

\* config, err := LoadSopsConfig(configPath); on an error the caller gives up
LoadConfig ==
    \E readOk \in BOOLEAN :
        LET res == LoadSopsConfig(cfgFile, readOk) IN
        /\ config' = IF res.err THEN config ELSE res.rules
        /\ last' = StoreOp("load", ~res.err,
                           IF readOk \/ cfgFile.kind = "absent" THEN "ok" ELSE "readFail")
        /\ UNCHANGED <<cfgFile, files, batch>>

\* os.Remove(configPath) once no rules remain and the user confirms
RemoveConfigFile ==
    /\ Len(config) = 0
    /\ cfgFile.kind # "absent"
    /\ cfgFile' = AbsentFile
    /\ last' = StoreOp("rmfile", TRUE, "ok")
    /\ UNCHANGED <<config, files, batch>>

NextStore == SaveConfig \/ LoadConfig \/ RemoveConfigFile

SpecStore == InitStore /\ [][NextStore]_vars

\* C9: a Load that directly follows a successful Save of a RuleFile returns an
\* equal ordered rule sequence (rules with an empty fieldsPattern and the
\* empty sequence included); Load of a path that does not exist returns the
\* empty RuleFile and no error.
C9_SaveLoadRoundTrip ==
    [][/\ (last.op = "save" /\ last.ok /\ last'.op = "load" /\ last'.io = "ok")
             => (last'.ok /\ config' = config)
       /\ (last'.op = "load" /\ cfgFile = AbsentFile)
             => (last'.ok /\ config' = <<>>)]_vars

\* a Load has read back a saved file of several rules, with and without a
\* fieldsPattern
C9_Witness ==
    /\ last.op = "load"
    /\ last.ok
    /\ cfgFile.kind = "yaml"
    /\ Len(config) >= 2
    /\ \E i, j \in 1..Len(config) :
           config[i].EncryptedRegex = Empty /\ config[j].EncryptedRegex # Empty

---------------------------------------------------------------------------
(* Key-file contents and the public-key extractors *)

\* the literal "# public key:"
PublicKeyPrefix ==
    <<"#", " ", "p", "u", "b", "l", "i", "c", " ", "k", "e", "y", ":">>

\* strings.HasPrefix(s, prefix)
HasPrefix(s, prefix) ==
    Len(s) >= Len(prefix) /\ SubSeq(s, 1, Len(prefix)) = prefix

\* strings.TrimPrefix(s, prefix)
TrimPrefix(s, prefix) ==
    IF HasPrefix(s, prefix) THEN SubSeq(s, Len(prefix) + 1, Len(s)) ELSE s

\* strings.HasSuffix(s, "\n")
EndsWithNewline(s) == Len(s) > 0 /\ s[Len(s)] = "\n"

\* unicode.IsSpace on the characters that occur
IsSpace(c) == c \in {" ", "\t", "\n", "\r"}

\* strings.TrimSpace(s)
TrimSpace(s) ==
    LET solid == { i \in 1..Len(s) : ~IsSpace(s[i]) } IN
    IF solid = {} THEN Empty
    ELSE SubSeq(s, CHOOSE i \in solid : \A j \in solid : i <= j,
                   CHOOSE i \in solid : \A j \in solid : i >= j)

\* strings.Split(s, "\n"): the pieces between the separators, one piece (s
\* itself) when there is no separator
RECURSIVE Split(_, _)
Split(s, sep) ==
    LET i == Index(s, sep) IN
    IF i < 0 THEN <<s>>
    ELSE <<SubSeq(s, 1, i)>> \o Split(SubSeq(s, i + 2, Len(s)), sep)

\* strings.Join(parts, sep)
RECURSIVE Join(_, _)
Join(parts, sep) ==
    IF parts = <<>> THEN Empty
    ELSE IF Len(parts) = 1 THEN parts[1]
    ELSE parts[1] \o <<sep>> \o Join(Tail(parts), sep)

\* what os.ReadFile returns for a key file
ReadFailed == [ok |-> FALSE, content |-> Empty]

ReadOk(content) == [ok |-> TRUE, content |-> content]

\* extractPublicKey(keyContent): the rest of the first line that starts with
\* the prefix, untrimmed
extractPublicKey(keyContent) ==
    LET lines == Split(keyContent, "\n")
        hits  == { i \in 1..Len(lines) : HasPrefix(lines[i], PublicKeyPrefix) }
    IN IF hits = {} THEN [key |-> Empty, err |-> TRUE]
       ELSE [key |-> TrimPrefix(lines[CHOOSE i \in hits : \A j \in hits : i <= j],
                                PublicKeyPrefix),
             err |-> FALSE]

\* GetPublicKeyFromFile(keyFile), read being what os.ReadFile gives
GetPublicKeyFromFile(read) ==
    IF ~read.ok THEN [key |-> Empty, err |-> TRUE]
    ELSE LET res == extractPublicKey(read.content) IN
         IF res.err THEN [key |-> Empty, err |-> TRUE]
         ELSE [key |-> TrimSpace(res.key), err |-> FALSE]

\* the loop of GetAllPublicKeysFromFile over the lines
RECURSIVE CollectPublicKeys(_)
CollectPublicKeys(lines) ==
    IF lines = <<>> THEN <<>>
    ELSE LET line   == Head(lines)
             pubKey == TrimSpace(TrimPrefix(line, PublicKeyPrefix))
         IN (IF HasPrefix(line, PublicKeyPrefix) /\ pubKey # Empty
             THEN <<pubKey>> ELSE <<>>)
            \o CollectPublicKeys(Tail(lines))

\* GetAllPublicKeysFromFile(keyFile), read being what os.ReadFile gives
GetAllPublicKeysFromFile(read) ==
    IF ~read.ok THEN [keys |-> <<>>, err |-> TRUE]
    ELSE LET pubKeys == CollectPublicKeys(Split(read.content, "\n")) IN
         IF Len(pubKeys) = 0 THEN [keys |-> <<>>, err |-> TRUE]
         ELSE [keys |-> pubKeys, err |-> FALSE]

\* lines a key file is made of: a public-key comment as age-keygen writes it,
\* one without the space, one with no value, one with a blank value, an
\* indented one, a secret-key line and the empty line
KeyLines ==
    { PublicKeyPrefix \o <<" ", "A">>,
      PublicKeyPrefix \o <<"B">>,
      PublicKeyPrefix,
      PublicKeyPrefix \o <<" ">>,
      <<" ">> \o PublicKeyPrefix \o <<" ", "A">>,
      <<"S">>,
      Empty }

\* all key-file contents of at most MaxLines lines, with and without a
\* final newline
KeyContents ==
    { Join(ls, "\n") \o nl :
          ls \in SeqsUpTo(KeyLines, MaxLines), nl \in {Empty, <<"\n">>} }

InitExtract ==
    /\ config = <<>>
    /\ cfgFile = AbsentFile
    /\ files = AllPlain
    /\ batch = NoBatch
    /\ last \in { [op |-> "keyfile", read |-> r] :
                    r \in {ReadFailed} \cup { ReadOk(c) : c \in KeyContents } }

\* keymgmt.GetPublicKeyFromFile on the key file
ExtractSingle ==
    /\ last.op = "keyfile"
    /\ last' = [op |-> "single", read |-> last.read,
                res |-> GetPublicKeyFromFile(last.read)]
    /\ UNCHANGED <<config, cfgFile, files, batch>>

\* keymgmt.GetAllPublicKeysFromFile on the key file
ExtractAll ==
    /\ last.op = "keyfile"
    /\ last' = [op |-> "all", read |-> last.read,
                res |-> GetAllPublicKeysFromFile(last.read)]
    /\ UNCHANGED <<config, cfgFile, files, batch>>

NextExtract == ExtractSingle \/ ExtractAll

SpecExtract == InitExtract /\ [][NextExtract]_vars

\* C17: the single-key extractor and the multi-key extractor agree on which
\* lines qualify as public-key comments: for every key-file content one fails
\* iff the other fails, and when they succeed the trimmed single-key result
\* equals the first element of the multi-key result.
C17_ExtractorsAgree ==
    /\ last.op = "single" =>
           LET all == GetAllPublicKeysFromFile(last.read) IN
           /\ last.res.err <=> all.err
           /\ ~last.res.err => TrimSpace(last.res.key) = all.keys[1]
    /\ last.op = "all" =>
           LET single == GetPublicKeyFromFile(last.read) IN
           /\ last.res.err <=> single.err
           /\ ~last.res.err => TrimSpace(single.key) = last.res.keys[1]

---------------------------------------------------------------------------
(* The key locator: EnsureAgeKey and the 1Password retrieval *)

\* content of the field fetched for the i-th 1Password item: a key block
\* whose last line has no newline
ItemContent(i) == PublicKeyPrefix \o <<" ", Letters[i], "\n", "S">>

\* content of a key file found on disk
KeyFileContent == PublicKeyPrefix \o <<" ", "K", "\n", "S", "\n">>

\* what one retrieval attempt meets: op missing from PATH, os.MkdirTemp,
\* os.Create or the first write failing, and for each item whether
\* getKeyContentFromOnePassword delivers its field
PrepOutcomes == {"ok", "noCli", "mkdirFail", "createFail", "writeFail"}

OpEnvs == [prep : PrepOutcomes, fetch : [1..MaxItems -> BOOLEAN]]

RetrievalFailed == [ok |-> FALSE, isTemp |-> FALSE, content |-> Empty, contributed |-> 0]

\* the loop of GetKeysFromOnePassword over items i..n: the combined file and
\* the number of items written to it
RECURSIVE FetchItems(_, _, _)
FetchItems(i, n, env) ==
    IF i > n THEN [content |-> Empty, contributed |-> 0]
    ELSE LET rest == FetchItems(i + 1, n, env) IN
         IF ~env.fetch[i] THEN rest
         ELSE LET keyContent == IF EndsWithNewline(ItemContent(i))
                                THEN ItemContent(i)
                                ELSE ItemContent(i) \o <<"\n">>
              IN [content |-> keyContent \o rest.content,
                  contributed |-> rest.contributed + 1]

\* GetKeysFromOnePassword(items) for n items
GetKeysFromOnePassword(n, env) ==
    IF env.prep \in {"noCli", "mkdirFail", "createFail"} THEN RetrievalFailed
    ELSE LET got == FetchItems(1, n, env) IN
         IF env.prep = "writeFail" /\ got.contributed > 0 THEN RetrievalFailed
         ELSE [ok |-> TRUE, isTemp |-> TRUE,
               content |-> got.content, contributed |-> got.contributed]

\* GetKeyFromOnePassword(DefaultOnePasswordItem): checkOnePasswordCLI,
\* getKeyContentFromOnePassword, CreateTempAgeKeyFile
GetKeyFromOnePassword(env) ==
    IF env.prep = "noCli" THEN RetrievalFailed
    ELSE IF ~env.fetch[1] THEN RetrievalFailed
    ELSE IF env.prep # "ok" THEN RetrievalFailed
    ELSE [ok |-> TRUE, isTemp |-> TRUE, content |-> ItemContent(1), contributed |-> 1]

\* the retrieval EnsureAgeKey runs: the given items, else the default item
Retrieve(n, env) ==
    IF n > 0 THEN GetKeysFromOnePassword(n, env) ELSE GetKeyFromOnePassword(env)

\* os.UserHomeDir()
Home == <<"/", "h">>

\* expandPath(path); homeOk tells whether os.UserHomeDir succeeds
expandPath(path, homeOk) ==
    IF ~HasPrefix(path, <<"~">>) THEN [path |-> path, err |-> FALSE]
    ELSE IF ~homeOk THEN [path |-> Empty, err |-> TRUE]
    ELSE [path |-> Home \o Tail(path), err |-> FALSE]

\* the path of a temporary bundle, <tmp>/simple-sops-*/age-key(s).txt
TempKeyPath == <<"t">>

Located(path, isTemp, content, contributed) ==
    [path |-> path, isTemp |-> isTemp, err |-> "",
     content |-> content, contributed |-> contributed]

LocateFailed(err) ==
    [path |-> Empty, isTemp |-> FALSE, err |-> err, content |-> Empty, contributed |-> 0]

\* EnsureAgeKey(keyFile, useOnePassword, alwaysUseOnePassword, opItems...) for
\* n items, on a disk holding the key files of disk, first and later
\* retrieval attempts meeting env1 and env2
EnsureAgeKey(keyFile, useOnePassword, alwaysUseOnePassword, n, disk, homeOk, env1, env2) ==
    LET first    == Retrieve(n, env1)
        second   == Retrieve(n, env2)
        expanded == expandPath(keyFile, homeOk)
        fromOp   == IF useOnePassword /\ second.ok
                    THEN Located(TempKeyPath, second.isTemp, second.content, second.contributed)
                    ELSE LocateFailed("noKey")
    IN IF alwaysUseOnePassword /\ useOnePassword /\ first.ok
       THEN Located(TempKeyPath, first.isTemp, first.content, first.contributed)
       ELSE IF keyFile # Empty
            THEN IF expanded.err THEN LocateFailed("home")
                 ELSE IF expanded.path \in disk
                      THEN Located(expanded.path, FALSE, KeyFileContent, 1)
                      ELSE fromOp
            ELSE fromOp

\* keyFile arguments: none, a relative path, a path under the home directory
KeyFileArgs == { Empty, <<"k">>, <<"~", "/", "k">> }

\* the key files that may exist
KeyPaths == { <<"k">>, Home \o <<"/", "k">> }

InitLocate ==
    /\ config = <<>>
    /\ cfgFile = AbsentFile
    /\ files = AllPlain
    /\ batch = NoBatch
    /\ last \in [op : {"locateCall"}, keyFile : KeyFileArgs, use : BOOLEAN,
                 always : BOOLEAN, n : 0..MaxItems, disk : SUBSET KeyPaths,
                 homeOk : BOOLEAN]

\* one call of EnsureAgeKey, recorded with what the two retrieval attempts
\* deliver and with its result
Locate ==
    /\ last.op = "locateCall"
    /\ \E env1, env2 \in OpEnvs :
          last' = [op |-> "locate", keyFile |-> last.keyFile, use |-> last.use,
                   always |-> last.always, n |-> last.n, disk |-> last.disk,
                   homeOk |-> last.homeOk,
                   r1 |-> Retrieve(last.n, env1),
                   r2 |-> Retrieve(last.n, env2),
                   res |-> EnsureAgeKey(last.keyFile, last.use, last.always, last.n,
                                        last.disk, last.homeOk, env1, env2)]
    /\ UNCHANGED <<config, cfgFile, files, batch>>

NextLocate == Locate

SpecLocate == InitLocate /\ [][NextLocate]_vars

\* the explicit path of a call names an existing file after expansion of a
\* leading home-directory marker
NamesExistingFile(call) ==
    /\ call.keyFile # Empty
    /\ IF call.keyFile[1] = "~"
       THEN call.homeOk /\ (Home \o Tail(call.keyFile)) \in call.disk
       ELSE call.keyFile \in call.disk

\* C13: resolution order of EnsureAgeKey: if alwaysPreferSecretManager and
\* secret-manager access are both true and retrieval succeeds, a temporary
\* bundle is returned even when the explicit key file exists; otherwise if
\* the explicit path (after home-directory expansion) names an existing file,
\* that path is returned with isTemporary = false; otherwise if
\* secret-manager access is allowed and retrieval succeeds, a temporary
\* bundle is returned; otherwise the call fails ('no key available').
C13_ResolutionOrder ==
    last.op = "locate" =>
        IF last.always /\ last.use /\ last.r1.ok
        THEN last.res.err = "" /\ last.res.isTemp /\ last.res.content = last.r1.content
        ELSE IF NamesExistingFile(last)
             THEN /\ last.res.err = "" /\ ~last.res.isTemp
                  /\ last.res.path \in last.disk
             ELSE IF last.use /\ last.r2.ok
                  THEN /\ last.res.err = "" /\ last.res.isTemp
                       /\ last.res.content = last.r2.content
                  ELSE last.res.err # ""

\* C14: the key locator never returns a bundle that no source contributed to:
\* a successful EnsureAgeKey returns a bundle that holds key material, and a
\* secret-manager retrieval that yields nothing (every given item failing to
\* be fetched included) counts as failed.
C14_NoEmptyBundle ==
    last.op = "locate" =>
        /\ last.res.err = "" =>
               (last.res.contributed >= 1 /\ last.res.content # Empty)
        /\ (last.use /\ last.res.err = "" /\ last.res.isTemp) =>
               \E r \in {last.r1, last.r2} :
                   r.contributed >= 1 /\ last.res.content = r.content

---------------------------------------------------------------------------
(* The key aggregator of EncryptFilesWithMultipleKeys *)

\* content followed by the newline the aggregator adds when it is missing
WithNewline(content) ==
    IF EndsWithNewline(content) THEN content ELSE content \o <<"\n">>

\* contents of the key files given with --key-file: a key block without and
\* one with a final newline, a secret key without its comment lines, and a
\* block whose public-key comment has no value
SourceContents ==
    { PublicKeyPrefix \o <<" ", "A", "\n", "S">>,
      PublicKeyPrefix \o <<" ", "B", "\n", "S", "\n">>,
      <<"S", "\n">>,
      PublicKeyPrefix \o <<"\n", "S", "\n">> }

\* what ExpandPath and os.ReadFile give for one key file
KeyReads == {ReadFailed} \cup { ReadOk(c) : c \in SourceContents }

\* the loop over keyFiles: what it appends to the combined file and how many
\* key files it appended
RECURSIVE AppendKeyFiles(_)
AppendKeyFiles(reads) ==
    IF reads = <<>> THEN [content |-> Empty, contributed |-> 0]
    ELSE LET rest == AppendKeyFiles(Tail(reads)) IN
         IF ~Head(reads).ok THEN rest
         ELSE [content |-> WithNewline(Head(reads).content) \o rest.content,
               contributed |-> rest.contributed + 1]

Aggregated(err, bundle, pubKeys, contributed) ==
    [err |-> err, bundle |-> bundle, pubKeys |-> pubKeys, contributed |-> contributed]

\* the first part of EncryptFilesWithMultipleKeys, up to allPubKeys: start is
\* the outcome of creating the combined key file, n the number of opItems,
\* reads what the keyFiles give, fbEnv what the fallback EnsureAgeKey meets
AggregateKeys(start, n, opEnv, reads, alwaysUseOnePassword, fbEnv, pubKeys) ==
    LET op       == IF n > 0 THEN GetKeysFromOnePassword(n, opEnv) ELSE RetrievalFailed
        fromOp   == IF op.ok THEN WithNewline(op.content) ELSE Empty
        fromKf   == AppendKeyFiles(reads)
        added    == op.ok \/ fromKf.contributed > 0
        fallback == EnsureAgeKey(Empty, TRUE, TRUE, 0, {}, TRUE, fbEnv, fbEnv)
        useFb    == ~added /\ alwaysUseOnePassword
        bundle   == fromOp \o fromKf.content
                    \o (IF useFb /\ fallback.err = ""
                        THEN WithNewline(fallback.content) ELSE Empty)
        count    == (IF op.ok THEN op.contributed ELSE 0) + fromKf.contributed
                    + (IF useFb /\ fallback.err = "" THEN fallback.contributed ELSE 0)
        scanned  == GetAllPublicKeysFromFile(ReadOk(bundle))
    IN IF start # "ok" THEN Aggregated("tempFile", Empty, <<>>, 0)
       ELSE IF useFb /\ fallback.err # "" THEN Aggregated("anyKeys", bundle, <<>>, count)
       ELSE IF ~added /\ ~useFb THEN Aggregated("noValidKeys", bundle, <<>>, count)
       ELSE IF Len(pubKeys) > 0 THEN Aggregated("", bundle, pubKeys, count)
       ELSE IF scanned.err THEN Aggregated("publicKeys", bundle, <<>>, count)
       ELSE Aggregated("", bundle, scanned.keys, count)

---------------------------------------------------------------------------
(* Batch operations: the state of one running batch *)

\* the error a batch returns or records for a file; why = "ok" is nil
OpError(why) == [file |-> Empty, why |-> why]

NoError == OpError("ok")

FileResult(file, why) == [file |-> file, why |-> why]

\* a batch that returned before its loop: keyResolved tells whether the keys
\* were asked for, isTemp whether the key bundle is a temporary one, keyTemp
\* whether a temporary bundle is on disk
Finished(kind, filePaths, err, keyResolved) ==
    [kind |-> kind, pc |-> "done", filePaths |-> filePaths, todo |-> <<>>,
     results |-> <<>>, err |-> err, keyResolved |-> keyResolved,
     prepared |-> FALSE, keyContent |-> Empty, pubKeyStr |-> Empty,
     mode |-> "none", prompts |-> 0, useStdout |-> FALSE, answer |-> 0,
     isTemp |-> FALSE, keyTemp |-> FALSE, cfg0 |-> cfgFile]

\* a batch at the head of its loop, with the key bundle, the recipients, the
\* decryption mode and the number of prompts shown so far
Started(kind, filePaths, keyContent, pubKeyStr, mode, prompts) ==
    [Finished(kind, filePaths, NoError, TRUE) EXCEPT
        !.pc = "loop", !.todo = filePaths, !.prepared = TRUE,
        !.keyContent = keyContent, !.pubKeyStr = pubKeyStr,
        !.mode = mode, !.prompts = prompts]

\* filepath.Base(path)
RECURSIVE Base(_)
Base(path) ==
    LET i == Index(path, "/") IN
    IF i < 0 THEN path ELSE Base(SubSeq(path, i + 2, Len(path)))

\* the file lists a batch is called with
FileLists == SeqsUpTo(FileNames, NumFiles)

\* a retrieval that meets no obstacle, and one without the op CLI
EnvOk == [prep |-> "ok", fetch |-> [i \in 1..MaxItems |-> TRUE]]

EnvNoCli == [prep |-> "noCli", fetch |-> [i \in 1..MaxItems |-> TRUE]]

\* explicit public keys: none (as the encrypt command passes), or one
PubKeyArgs == { <<>>, << <<"X">> >> }

\* arguments and surroundings of the key aggregation: any combination of
\* 1Password items, key files, fallback and explicit public keys
AllAggInputs ==
    { i \in [start : {"ok", "mkdirFail"}, n : 0..MaxItems,
             opEnv : { e \in OpEnvs : e.prep \in {"ok", "noCli"} },
             reads : SeqsUpTo(KeyReads, MaxKeyFiles), always : BOOLEAN,
             fbEnv : {EnvOk, EnvNoCli}, pubKeys : PubKeyArgs, cwd : BOOLEAN] :
        /\ i.n = 0 => i.opEnv = EnvOk
        /\ ~i.always => i.fbEnv = EnvOk
        /\ i.start # "ok" => i.cwd }

\* one key file, no 1Password item, no fallback, no explicit public keys
OneKeyFileInputs ==
    [start : {"ok"}, n : {0}, opEnv : {EnvOk},
     reads : { <<r>> : r \in KeyReads }, always : {FALSE},
     fbEnv : {EnvOk}, pubKeys : { <<>> }, cwd : BOOLEAN]

\* EncryptFilesWithMultipleKeys up to its loop: the check for an empty list,
\* the key aggregation and GetSopsConfigPath
EncryptMultiBeginWith(inputs) ==
    /\ batch.pc = "idle"
    /\ \/ /\ batch' = Finished("encryptMulti", <<>>, OpError("noFiles"), FALSE)
          /\ last' = [op |-> "noFiles"]
       \/ \E filePaths \in FileLists \ {<<>>}, i \in inputs :
             LET agg == AggregateKeys(i.start, i.n, i.opEnv, i.reads, i.always,
                                      i.fbEnv, i.pubKeys)
             IN /\ batch' =
                      IF agg.err # ""
                      THEN Finished("encryptMulti", filePaths, OpError(agg.err), TRUE)
                      ELSE IF ~i.cwd
                      THEN Finished("encryptMulti", filePaths, OpError("configPath"), TRUE)
                      ELSE [Started("encryptMulti", filePaths, agg.bundle,
                                    Join(agg.pubKeys, ","), "none", 0)
                               EXCEPT !.isTemp = TRUE, !.keyTemp = TRUE]
                /\ last' = [op |-> "aggregate", input |-> i, agg |-> agg]
    /\ UNCHANGED <<config, cfgFile, files>>

EncryptMultiBeginAny == EncryptMultiBeginWith(AllAggInputs)

EncryptMultiBegin == EncryptMultiBeginWith(OneKeyFileInputs)

RecordedFirst(err, result) ==
    IF result.why = "ok" \/ err.why # "ok" THEN err ELSE result

\* encryptErr = err / decryptErr = err: the error kept after one more file
Recorded(err, result) ==
    IF result.why = "ok" THEN err ELSE result

\* the step of a file's processing that fails first, if any
StepFailures == {"none", "publicKey", "load", "save", "sops"}

\* one file of an encrypt batch: os.Stat, (single key: GetPublicKeyFromFile,)
\* LoadSopsConfig, AddCreationRule[WithMultipleKeys] under the base name,
\* SaveSopsConfig, sops --encrypt --in-place, which refuses a file that is
\* encrypted already; the error is recorded and the loop goes on
EncryptNext(kind) ==
    /\ batch.kind = kind
    /\ batch.pc = "loop"
    /\ batch.todo # <<>>
    /\ \E fail \in StepFailures :
          LET filePath == Head(batch.todo)
              pubKey   == IF kind = "encrypt"
                          THEN GetPublicKeyFromFile(
                                   IF fail = "publicKey" THEN ReadFailed
                                   ELSE ReadOk(batch.keyContent))
                          ELSE [key |-> batch.pubKeyStr, err |-> FALSE]
              loaded   == LoadSopsConfig(cfgFile, fail # "load")
              rules    == IF kind = "encrypt"
                          THEN AddCreationRule(loaded.rules, Base(filePath), pubKey.key, Empty)
                          ELSE AddCreationRuleWithMultipleKeys(loaded.rules, Base(filePath),
                                                               pubKey.key, Empty)
              why      == IF files[filePath] = "absent" THEN "notFound"
                          ELSE IF pubKey.err THEN "publicKey"
                          ELSE IF loaded.err THEN "load"
                          ELSE IF fail \in {"save", "sops"} THEN fail
                          ELSE IF files[filePath] = "enc" THEN "sops"
                          ELSE "ok"
          IN /\ kind = "encryptMulti" => fail # "publicKey"
             /\ config' = IF why \in {"save", "sops", "ok"} THEN rules ELSE config
             /\ cfgFile' \in IF why \in {"sops", "ok"} THEN {Marshal(rules)}
                             ELSE IF why = "save" THEN AfterFailedWrite(cfgFile)
                             ELSE {cfgFile}
             /\ files' = IF why = "ok" THEN [files EXCEPT ![filePath] = "enc"] ELSE files
             /\ batch' = [batch EXCEPT
                             !.todo = Tail(@),
                             !.results = Append(@, FileResult(filePath, why)),
                             !.err = Recorded(@, FileResult(filePath, why))]
             /\ last' = [op |-> "file", file |-> filePath, why |-> why]

EncryptMultiFile == EncryptNext("encryptMulti")

\* return encryptErr / decryptErr, and the deferred removal of a temporary
\* key bundle
BatchEnd ==
    /\ batch.pc = "loop"
    /\ batch.todo = <<>>
    /\ batch' = [batch EXCEPT !.pc = "done", !.keyTemp = FALSE]
    /\ last' = [op |-> "return"]
    /\ UNCHANGED <<config, cfgFile, files>>

InitEncryptMulti ==
    /\ config = <<>>
    /\ cfgFile = AbsentFile
    /\ files \in [FileNames -> {"plain", "absent"}]
    /\ batch = NoBatch
    /\ last = [op |-> "none"]

NextEncryptMulti == EncryptMultiBeginAny \/ EncryptMultiFile \/ BatchEnd

SpecEncryptMulti == InitEncryptMulti /\ [][NextEncryptMulti]_vars

\* number of sources of an aggregation that yielded key content: 1Password
\* items fetched, key files read, the fallback default key
SourcesYielding(i) ==
    LET items == IF i.n > 0 /\ i.opEnv.prep = "ok"
                 THEN Cardinality({ k \in 1..i.n : i.opEnv.fetch[k] }) ELSE 0
        kfs   == Cardinality({ k \in 1..Len(i.reads) : i.reads[k].ok })
    IN IF i.start # "ok" THEN 0
       ELSE items + kfs
            + (IF items + kfs = 0 /\ i.always /\ i.fbEnv.prep = "ok" THEN 1 ELSE 0)

\* C15: key aggregation in EncryptFilesWithMultipleKeys fails iff zero sources
\* contributed key content: it does not fail for want of keys when at least
\* one source contributed, and it fails, with no file processed, no rule
\* written and no external encrypt run, whenever no 1Password item, key file
\* or fallback default key yielded content, whether or not explicit public
\* keys were supplied.
C15_FailsIffNoSource ==
    /\ last.op = "aggregate" =>
           /\ SourcesYielding(last.input) = 0 => last.agg.err # ""
           /\ SourcesYielding(last.input) >= 1 =>
                  last.agg.err \notin {"noValidKeys", "anyKeys"}
           /\ last.agg.err # "" => batch.pc = "done"
    /\ (batch.kind = "encryptMulti" /\ ~batch.prepared) =>
           (batch.results = <<>> /\ cfgFile = batch.cfg0 /\ files \in [FileNames -> {"plain", "absent"}])

\* the contents of the sources of an aggregation that yielded content, in
\* priority order: 1Password items, key files, then the fallback default key
\* if nothing was added before
YieldingSources(i) ==
    LET Fetched(k) == i.n > 0 /\ i.opEnv.prep = "ok" /\ i.opEnv.fetch[k]
        Read(r)    == r.ok
        items      == SelectSeq([k \in 1..i.n |-> k], Fetched)
        kfs        == SelectSeq(i.reads, Read)
        first      == [k \in 1..Len(items) |-> ItemContent(items[k])]
                      \o [k \in 1..Len(kfs) |-> kfs[k].content]
    IN IF first = <<>> /\ i.always /\ i.fbEnv.prep = "ok"
       THEN <<ItemContent(1)>> ELSE first

\* the concatenation of contents, each followed by a newline when it does
\* not end in one
RECURSIVE Concatenated(_)
Concatenated(contents) ==
    IF contents = <<>> THEN Empty
    ELSE Head(contents)
         \o (IF Head(contents) # Empty /\ Head(contents)[Len(Head(contents))] = "\n"
             THEN Empty ELSE <<"\n">>)
         \o Concatenated(Tail(contents))

\* the values of the public-key comments of a bundle, in order
CommentValues(bundle) ==
    LET IsComment(line) == HasPrefix(line, PublicKeyPrefix)
        comments == SelectSeq(Split(bundle, "\n"), IsComment)
    IN [k \in 1..Len(comments) |->
           TrimSpace(SubSeq(comments[k], Len(PublicKeyPrefix) + 1, Len(comments[k])))]

\* C16: the aggregated bundle is the concatenation of the contributing
\* sources in priority order (1Password items, key files in the given order,
\* the fallback default key only if nothing was added before), with a newline
\* appended after any source whose content did not end in one; the extracted
\* PublicKeySet lists every public-key comment of the bundle in that order
\* without deduplication.
C16_BundleAndKeySet ==
    (last.op = "aggregate" /\ last.agg.err = "") =>
        /\ last.agg.bundle = Concatenated(YieldingSources(last.input))
        /\ last.input.pubKeys = <<>> =>
               last.agg.pubKeys = CommentValues(last.agg.bundle)

---------------------------------------------------------------------------
(* EncryptFiles, DecryptFiles, DecryptToFile and RunWithEncryptedFile *)

\* what the EnsureAgeKey of a batch is called with and meets: the key file k
\* present or missing, the op CLI present or missing
BatchKeyInputs ==
    [keyFile : { <<"k">> }, always : BOOLEAN, disk : { {}, { <<"k">> } },
     env : {EnvOk, EnvNoCli}]

\* EnsureAgeKey(keyFile, true, alwaysUseOnePassword)
BatchKey(k) ==
    EnsureAgeKey(k.keyFile, TRUE, k.always, 0, k.disk, TRUE, k.env, k.env)

\* EncryptFiles up to its loop: the check for an empty list, EnsureAgeKey and
\* GetSopsConfigPath
EncryptBegin ==
    /\ batch.pc = "idle"
    /\ \/ batch' = Finished("encrypt", <<>>, OpError("noFiles"), FALSE)
       \/ \E filePaths \in FileLists \ {<<>>}, k \in BatchKeyInputs, cwd \in BOOLEAN :
             LET key == BatchKey(k) IN
             batch' = IF key.err # ""
                      THEN Finished("encrypt", filePaths, OpError(key.err), TRUE)
                      ELSE IF ~cwd
                      THEN Finished("encrypt", filePaths, OpError("configPath"), TRUE)
                      ELSE [Started("encrypt", filePaths, key.content, Empty, "none", 0)
                               EXCEPT !.isTemp = key.isTemp, !.keyTemp = key.isTemp]
    /\ last' = [op |-> "encryptBegin"]
    /\ UNCHANGED <<config, cfgFile, files>>

\* EncryptFile for the next file of EncryptFiles
EncryptOne == EncryptNext("encrypt")

\* what the user types at the prompt: 0 stands for input that is no number
PromptAnswers == 0..3

\* defaultPromptChoice: the choice read, an error when it is no number or
\* not one of the choices
PromptChoice(answer, numChoices) ==
    IF answer < 1 \/ answer > numChoices
    THEN [choice |-> 0, err |-> TRUE]
    ELSE [choice |-> answer, err |-> FALSE]

\* whether DecryptFiles asks for the mode
Prompted(useStdout, numFiles) == ~useStdout /\ numFiles > 1

DecryptModeSwapped(useStdout, numFiles, choice) ==
    IF useStdout THEN "stdout"
    ELSE IF numFiles > 1 /\ choice = 2 THEN "stdout"
    ELSE "inPlace"

\* the mode DecryptFiles settles on, choice being what PromptChoice returned
DecryptMode(useStdout, numFiles, choice) ==
    IF useStdout THEN "stdout"
    ELSE IF numFiles > 1 /\ choice = 1 THEN "stdout"
    ELSE "inPlace"

\* DecryptFiles up to its loop: the check for an empty list, the mode, the
\* prompt and EnsureAgeKey
DecryptBegin ==
    /\ batch.pc = "idle"
    /\ \/ batch' = Finished("decrypt", <<>>, OpError("noFiles"), FALSE)
       \/ \E filePaths \in FileLists \ {<<>>}, useStdout \in BOOLEAN,
             answer \in PromptAnswers, k \in BatchKeyInputs :
             LET asked   == Prompted(useStdout, Len(filePaths))
                 chosen  == PromptChoice(answer, 2)
                 mode    == DecryptMode(useStdout, Len(filePaths), chosen.choice)
                 key     == BatchKey(k)
                 prompts == IF asked THEN 1 ELSE 0
                 given   == IF asked THEN answer ELSE 0
             IN /\ ~asked => answer = 0
                /\ batch' =
                      IF asked /\ chosen.err
                      THEN [Finished("decrypt", filePaths, OpError("invalidChoice"), FALSE)
                               EXCEPT !.prompts = prompts, !.useStdout = useStdout,
                                      !.answer = given]
                      ELSE IF key.err # ""
                      THEN [Finished("decrypt", filePaths, OpError(key.err), TRUE)
                               EXCEPT !.prompts = prompts, !.useStdout = useStdout,
                                      !.answer = given, !.mode = mode]
                      ELSE [Started("decrypt", filePaths, key.content, Empty, mode, prompts)
                               EXCEPT !.useStdout = useStdout, !.answer = given,
                                      !.isTemp = key.isTemp, !.keyTemp = key.isTemp]
    /\ last' = [op |-> "decryptBegin"]
    /\ UNCHANGED <<config, cfgFile, files>>

\* DecryptFile(filePath, keyFile, mode) on a file in the given state: os.Stat,
\* then sops --decrypt, which succeeds on an encrypted file only and with
\* --in-place replaces it by its plaintext
DecryptFile(state, mode, sopsOk) ==
    IF state = "absent" THEN [why |-> "notFound", state |-> state]
    ELSE IF ~sopsOk \/ state # "enc" THEN [why |-> "sops", state |-> state]
    ELSE [why |-> "ok", state |-> IF mode = "inPlace" THEN "plain" ELSE state]

\* the next file of DecryptFiles: the error is recorded and the loop goes on
DecryptOne ==
    /\ batch.kind = "decrypt"
    /\ batch.pc = "loop"
    /\ batch.todo # <<>>
    /\ \E sopsOk \in BOOLEAN :
          LET filePath == Head(batch.todo)
              res      == DecryptFile(files[filePath], batch.mode, sopsOk)
          IN /\ files' = [files EXCEPT ![filePath] = res.state]
             /\ batch' = [batch EXCEPT
                             !.todo = Tail(@),
                             !.results = Append(@, FileResult(filePath, res.why)),
                             !.err = Recorded(@, FileResult(filePath, res.why))]
             /\ last' = [op |-> "decryptFile", file |-> filePath, why |-> res.why,
                         mode |-> batch.mode]
    /\ UNCHANGED <<config, cfgFile>>

\* GetSopsConfigPath(): .sops.yaml at the repository root, else in the
\* working directory
ConfigPath == <<".", "s", "o", "p", "s", ".", "y", "a", "m", "l">>

\* an output path the user names, and the path under the temporary directory
OutPath == <<"o">>

TempPlainPath == <<"t", "/", "p">>

WriteOutputAnywhere(outputPath, file, content) == content

\* the rule file after outputPath was created or written with content
WriteOutput(outputPath, file, content) ==
    IF outputPath = ConfigPath THEN content ELSE file

\* the rule file after os.Remove(outputPath)
RemoveOutput(outputPath, file, removeOk) ==
    IF outputPath = ConfigPath /\ removeOk /\ file.kind # "absent"
    THEN AbsentFile ELSE file

\* DecryptToFile(inputPath, outputPath, keyFile) on an input in the given
\* state: os.Stat, os.Create(outputPath), sops --decrypt into it; file is
\* the rule file before and in the result after
DecryptToFile(state, outputPath, file, createOk, sopsOk) ==
    IF state = "absent" THEN [why |-> "notFound", file |-> file]
    ELSE IF ~createOk THEN [why |-> "create", file |-> file]
    ELSE IF ~sopsOk \/ state # "enc"
    THEN [why |-> "sops", file |-> WriteOutput(outputPath, file, EmptyFile)]
    ELSE [why |-> "ok", file |-> WriteOutput(outputPath, file, GarbageFile)]

\* one call of DecryptToFile
DecryptToFileCall ==
    /\ batch.pc = "idle"
    /\ \E input \in FileNames, output \in {OutPath, ConfigPath},
          createOk, sopsOk \in BOOLEAN :
          LET res == DecryptToFile(files[input], output, cfgFile, createOk, sopsOk)
          IN /\ cfgFile' = res.file
             /\ batch' = Finished("decryptToFile", <<input>>, OpError(res.why), FALSE)
             /\ last' = [op |-> "decryptToFile", input |-> input, output |-> output,
                         why |-> res.why]
    /\ UNCHANGED <<config, files>>

\* how the command ends: it does not start, exits with or without an
\* error, or a signal arrives first
ChildOutcomes == {"startFail", "exitOk", "exitFail", "signal"}

\* RunWithEncryptedFile(encryptedFilePath, outputPath, ...): os.Stat,
\* EnsureAgeKey, the temporary directory or the deferred os.Remove of the
\* output path, DecryptToFile, the command, and the deferred cleanup
Run ==
    /\ batch.pc = "idle"
    /\ \E input \in FileNames, output \in {Empty, OutPath, ConfigPath},
          k \in BatchKeyInputs, mkdirOk, createOk, sopsOk, removeOk \in BOOLEAN,
          child \in ChildOutcomes :
          LET key    == BatchKey(k)
              target == IF output = Empty THEN TempPlainPath ELSE output
              dec    == DecryptToFile(files[input], target, cfgFile, createOk, sopsOk)
              early  == IF files[input] = "absent" THEN "notFound"
                        ELSE IF key.err # "" THEN key.err
                        ELSE IF output = Empty /\ ~mkdirOk THEN "mkdir"
                        ELSE "none"
              why    == IF early # "none" THEN early
                        ELSE IF dec.why # "ok" THEN dec.why
                        ELSE child
          IN /\ cfgFile' = IF early # "none" THEN cfgFile
                           ELSE IF output = Empty THEN dec.file
                           ELSE RemoveOutput(output, dec.file, removeOk)
             /\ batch' = Finished("run", <<input>>,
                                  OpError(IF why = "exitOk" THEN "ok" ELSE why),
                                  files[input] # "absent")
             /\ last' = [op |-> "run", input |-> input, output |-> output, why |-> why]
    /\ UNCHANGED <<config, files>>

\* a rule file written by an earlier encryption of a.env
RulesOnDisk ==
    Marshal(<<CreationRule(<<"a", ".", "e", "n", "v">>, <<"K">>, Empty)>>)

InitBatch ==
    /\ config = <<>>
    /\ cfgFile \in {AbsentFile, RulesOnDisk}
    /\ files \in [FileNames -> {"plain", "absent"}] \cup [FileNames -> {"enc", "absent"}]
    /\ batch = NoBatch
    /\ last = [op |-> "none"]

NextBatch ==
    \/ EncryptBegin \/ EncryptOne
    \/ EncryptMultiBegin \/ EncryptMultiFile
    \/ DecryptBegin \/ DecryptOne
    \/ DecryptToFileCall \/ Run
    \/ BatchEnd

SpecBatch == InitBatch /\ [][NextBatch]_vars

\* the results of a batch are those of the first files of its list, in order
InListOrder(b) ==
    /\ Len(b.results) + Len(b.todo) = Len(b.filePaths)
    /\ \A i \in 1..Len(b.results) : b.results[i].file = b.filePaths[i]

\* the error of the last file of the results that failed, nil if none did
LastFailure(results) ==
    LET failed == { i \in 1..Len(results) : results[i].why # "ok" } IN
    IF failed = {} THEN NoError
    ELSE results[CHOOSE i \in failed : \A j \in failed : j <= i]

\* C18: batch encrypt and batch decrypt attempt every file of the list in
\* list order whatever happened to earlier files; the result is the error of
\* the last file that failed and is success iff every file succeeded; an
\* empty list fails with 'no files specified' before any key is resolved.
C18_ContinueOnError ==
    batch.kind \in {"encrypt", "encryptMulti", "decrypt"} =>
        /\ batch.prepared => InListOrder(batch)
        /\ (batch.prepared /\ batch.pc = "loop") =>
               batch.err = LastFailure(batch.results)
        /\ (batch.prepared /\ batch.pc = "done") =>
               /\ Len(batch.results) = Len(batch.filePaths)
               /\ batch.err = LastFailure(batch.results)
               /\ batch.err = NoError <=>
                      \A i \in 1..Len(batch.results) : batch.results[i].why = "ok"
        /\ ~batch.prepared => (batch.results = <<>> /\ batch.err # NoError)
        /\ batch.filePaths = <<>> =>
               (batch.pc = "done" /\ batch.err = OpError("noFiles")
                /\ ~batch.keyResolved /\ ~batch.prepared)

C18_Witness ==
    /\ batch.kind = "decrypt"
    /\ batch.pc = "done"
    /\ Len(batch.results) = 2
    /\ batch.results[1].why = "notFound"
    /\ batch.results[2].why = "ok"
    /\ batch.err = batch.results[1]

C20_ModeSelection ==
    [][batch'.kind = "decrypt" =>
         LET b      == batch'
             n      == Len(b.filePaths)
             asked  == ~b.useStdout /\ n > 1
             wanted == IF b.useStdout THEN "stdout"
                       ELSE IF n = 1 THEN "inPlace"
                       ELSE IF b.answer = 1 THEN "stdout" ELSE "inPlace"
         IN /\ b.prompts = (IF asked THEN 1 ELSE 0)
            /\ batch.pc = "idle" => (b.results = <<>> /\ files' = files)
            /\ (asked /\ b.answer \notin {1, 2}) =>
                   (b.pc = "done" /\ b.results = <<>> /\ b.err = OpError("invalidChoice"))
            /\ b.prepared => b.mode = wanted
            /\ last'.op = "decryptFile" =>
                   /\ last'.mode = wanted
                   /\ b.prompts = batch.prompts
                   /\ \A f \in FileNames :
                         files'[f] = IF f = last'.file /\ last'.why = "ok"
                                        /\ wanted = "inPlace"
                                     THEN "plain" ELSE files[f]]_vars

C20_Witness ==
    /\ batch.kind = "decrypt"
    /\ batch.pc = "done"
    /\ ~batch.useStdout
    /\ batch.prompts = 1
    /\ batch.answer = 2
    /\ Len(batch.results) = 2
    /\ \A i \in 1..2 : batch.results[i].why = "ok"
    /\ \A i \in 1..2 : files[batch.filePaths[i]] = "plain"

---------------------------------------------------------------------------
(* RunWithEncryptedFile step by step, with the signal and the child *)

\* the state of a run before its first step: out is the decrypted output
\* file, keyTemp whether a temporary key bundle is on disk, handler whether
\* signal.Notify was called, sig whether signalChan holds a signal, cmdDone
\* whether the result of cmd.Wait() was sent, sent whether a signal was sent
RunState(input, output, keyTemp) ==
    [kind |-> "run", pc |-> "create", input |-> input, output |-> output,
     out |-> "absent", created |-> FALSE, keyTemp |-> keyTemp,
     handler |-> FALSE, sig |-> FALSE, sent |-> "no", child |-> "none",
     cmdDone |-> FALSE, first |-> "none", killIssued |-> FALSE,
     removeFailed |-> FALSE, err |-> "none"]

\* return with the error why: the deferred os.Remove(outputPath) or
\* os.RemoveAll(tempDir) and the deferred CleanupTempAgeKeyFile run
Returned(b, why, removeOk) ==
    [b EXCEPT !.pc = "done", !.err = why,
              !.out = IF removeOk THEN "absent" ELSE @,
              !.keyTemp = IF removeOk THEN FALSE ELSE @,
              !.removeFailed = ~removeOk /\ (b.out = "present" \/ b.keyTemp)]

\* the signal branch of the select: cmd.Process.Kill() and the return
SignalBranch(b, removeOk) ==
    Returned([b EXCEPT !.killIssued = TRUE,
                       !.child = IF @ = "running" THEN "killed" ELSE @],
             "signal", removeOk)

\* the cmdDone branch of the select
DoneBranch(b, removeOk) ==
    Returned(b, IF b.child = "exited0" THEN "ok" ELSE "exitFail", removeOk)

\* os.Stat, EnsureAgeKey, and the temporary directory or the deferred removal
\* of the output path
RunBegin ==
    /\ batch.pc = "idle"
    /\ \E input \in FileNames, output \in {Empty, OutPath}, k \in BatchKeyInputs,
          mkdirOk, removeOk \in BOOLEAN :
          LET key   == BatchKey(k)
              start == RunState(input, output, key.err = "" /\ key.isTemp)
          IN batch' = IF files[input] = "absent"
                      THEN [start EXCEPT !.pc = "done", !.err = "notFound",
                                         !.keyTemp = FALSE]
                      ELSE IF key.err # ""
                      THEN [start EXCEPT !.pc = "done", !.err = key.err]
                      ELSE IF output = Empty /\ ~mkdirOk
                      THEN Returned(start, "mkdir", removeOk)
                      ELSE start
    /\ last' = [op |-> "runBegin"]
    /\ UNCHANGED <<config, cfgFile, files>>

\* DecryptToFile: os.Create(outputPath)
RunCreate ==
    /\ batch.kind = "run" /\ batch.pc = "create"
    /\ \E createOk, removeOk \in BOOLEAN :
          batch' = IF createOk
                   THEN [batch EXCEPT !.pc = "sops", !.out = "present", !.created = TRUE]
                   ELSE Returned(batch, "create", removeOk)
    /\ last' = [op |-> "runCreate"]
    /\ UNCHANGED <<config, cfgFile, files>>

\* DecryptToFile: sops --decrypt ends
RunDecrypted ==
    /\ batch.kind = "run" /\ batch.pc = "sops"
    /\ \E sopsOk, removeOk \in BOOLEAN :
          batch' = IF sopsOk /\ files[batch.input] = "enc"
                   THEN [batch EXCEPT !.pc = "notify"]
                   ELSE Returned(batch, "sops", removeOk)
    /\ last' = [op |-> "runDecrypted"]
    /\ UNCHANGED <<config, cfgFile, files>>

\* signal.Notify(signalChan, os.Interrupt, syscall.SIGTERM)
RunNotify ==
    /\ batch.kind = "run" /\ batch.pc = "notify"
    /\ batch' = [batch EXCEPT !.pc = "start", !.handler = TRUE]
    /\ last' = [op |-> "runNotify"]
    /\ UNCHANGED <<config, cfgFile, files>>

\* cmd.Start()
RunStart ==
    /\ batch.kind = "run" /\ batch.pc = "start"
    /\ \E startOk, removeOk \in BOOLEAN :
          batch' = IF startOk
                   THEN [batch EXCEPT !.pc = "started", !.child = "running"]
                   ELSE Returned(batch, "startFail", removeOk)
    /\ last' = [op |-> "runStart"]
    /\ UNCHANGED <<config, cfgFile, files>>

\* the select is reached: a ready channel is taken, either one when both
\* are ready, and with none ready the call blocks
RunSelect ==
    /\ batch.kind = "run" /\ batch.pc = "started"
    /\ \E removeOk \in BOOLEAN :
          \/ batch.sig /\ batch' = SignalBranch(batch, removeOk)
          \/ batch.cmdDone /\ batch' = DoneBranch(batch, removeOk)
          \/ ~batch.sig /\ ~batch.cmdDone /\ removeOk
             /\ batch' = [batch EXCEPT !.pc = "selecting"]
    /\ last' = [op |-> "runSelect"]
    /\ UNCHANGED <<config, cfgFile, files>>

\* the child exits and the goroutine sends the result of cmd.Wait(); a
\* blocked select takes it at once
ChildExit ==
    /\ batch.kind = "run" /\ batch.child = "running"
    /\ batch.pc \in {"started", "selecting"}
    /\ \E status \in {"exited0", "exited1"}, removeOk \in BOOLEAN :
          LET b == [batch EXCEPT !.child = status, !.cmdDone = TRUE,
                                 !.first = IF @ = "none" THEN "child" ELSE @]
          IN /\ batch.pc = "started" => removeOk
             /\ batch' = IF batch.pc = "selecting" THEN DoneBranch(b, removeOk) ELSE b
    /\ last' = [op |-> "childExit"]
    /\ UNCHANGED <<config, cfgFile, files>>

\* an interrupt or termination signal arrives: without a handler it ends the
\* process at once and no deferred call runs; with the handler it goes into
\* signalChan, where a blocked select takes it at once
Signal ==
    /\ batch.kind = "run"
    /\ batch.pc \in {"create", "sops", "notify", "start", "started", "selecting"}
    /\ batch.sent = "no"
    /\ \E removeOk \in BOOLEAN :
          LET b == [batch EXCEPT !.sent = batch.pc, !.sig = batch.handler,
                                 !.first = IF @ = "none" /\ batch.child = "running"
                                           THEN "signal" ELSE @]
          IN /\ batch.pc # "selecting" => removeOk
             /\ batch' = IF ~batch.handler THEN [b EXCEPT !.pc = "killed"]
                         ELSE IF batch.pc = "selecting" THEN SignalBranch(b, removeOk)
                         ELSE b
    /\ last' = [op |-> "signal"]
    /\ UNCHANGED <<config, cfgFile, files>>

NextRun ==
    \/ RunBegin \/ RunCreate \/ RunDecrypted \/ RunNotify \/ RunStart
    \/ RunSelect \/ ChildExit \/ Signal

SpecRun == InitBatch /\ [][NextRun]_vars

\* the run is over: it returned, or the process was ended by a signal
RunEnded == batch.kind = "run" /\ batch.pc \in {"done", "killed"}

\* C21: once the decrypted output file of a run has been created it is
\* absent when the run ends, on every exit path: decryption failure, failure
\* to start the command, non-zero exit, normal completion, and a signal
\* arriving at any point after the file was created, also while decryption
\* is still running.  (An exit on which the removal itself failed is left
\* out.)
C21_OutputRemoved ==
    (RunEnded /\ batch.created /\ ~batch.removeFailed) => batch.out = "absent"

\* C22: whichever of child completion and signal occurs first determines the
\* outcome: a signal arriving while the child runs makes the call issue a
\* kill and return the signal error; a child that completes first makes the
\* call return success for exit status zero and the command-execution error
\* otherwise.
C22_FirstEventDecides ==
    (batch.kind = "run" /\ batch.pc = "done" /\ batch.child # "none") =>
        /\ batch.first = "signal" => (batch.killIssued /\ batch.err = "signal")
        /\ batch.first = "child" =>
               batch.err = (IF batch.child = "exited0" THEN "ok" ELSE "exitFail")

---------------------------------------------------------------------------
(* A signal during a batch *)

\* an interrupt or termination signal arrives while a batch is in its loop:
\* these operations install no handler, the process ends at once and no
\* deferred call runs
Interrupt ==
    /\ batch.kind \in {"encrypt", "encryptMulti", "decrypt"}
    /\ batch.pc = "loop"
    /\ batch' = [batch EXCEPT !.pc = "killed"]
    /\ last' = [op |-> "interrupt"]
    /\ UNCHANGED <<config, cfgFile, files>>

NextInterrupt == NextBatch \/ Interrupt

SpecInterrupt == InitBatch /\ [][NextInterrupt]_vars

\* C23: every temporary key bundle created while running encrypt or decrypt
\* is deleted by the time the operation ends, whether it ends normally, with
\* an error, or because a signal arrived during the operation.
C23_TempBundleDeleted ==
    (batch.kind \in {"encrypt", "encryptMulti", "decrypt"}
     /\ batch.pc \in {"done", "killed"}) => ~batch.keyTemp

---------------------------------------------------------------------------
(* CleanupTempAgeKeyFile *)

\* "simple-sops-", the prefix of the directories os.MkdirTemp creates
TempDirPrefix == <<"s", "i", "m", "p", "l", "e", "-", "s", "o", "p", "s", "-">>

\* directory names: two with the prefix, the prefix itself, the prefix
\* without its last character, the prefix after another character, another
\* name
DirNames ==
    { TempDirPrefix \o <<"1">>, TempDirPrefix \o <<"2">>, TempDirPrefix,
      SubSeq(TempDirPrefix, 1, Len(TempDirPrefix) - 1),
      <<"x">> \o TempDirPrefix, <<"d">> }

\* path elements of the key file arguments
PathElements == DirNames \cup { <<".">>, <<".", ".">> }

\* filepath.Clean of a relative path given by its elements: "." elements
\* dropped, ".." taking away the element before it, leading ".." kept
RECURSIVE Clean(_)
Clean(elems) ==
    IF elems = <<>> THEN <<>>
    ELSE LET front == Clean(SubSeq(elems, 1, Len(elems) - 1))
             e     == elems[Len(elems)]
         IN IF e = <<".">> THEN front
            ELSE IF e = <<".", ".">> /\ front # <<>> /\ front[Len(front)] # <<".", ".">>
            THEN SubSeq(front, 1, Len(front) - 1)
            ELSE Append(front, e)

\* filepath.Dir(path): the cleaned path without its last element
Dir(elems) == Clean(SubSeq(elems, 1, Len(elems) - 1))

\* filepath.Base(dir) of a cleaned path, "." for the empty one
BaseName(dir) == IF dir = <<>> THEN <<".">> ELSE dir[Len(dir)]

IsTempDirShort(dir) ==
    HasPrefix(BaseName(dir), SubSeq(TempDirPrefix, 1, Len(TempDirPrefix) - 1))

\* strings.HasPrefix(filepath.Base(dir), "simple-sops-")
IsTempDir(dir) == HasPrefix(BaseName(dir), TempDirPrefix)

\* whether directory d is dir or lies below it
Below(d, dir) == Len(d) >= Len(dir) /\ SubSeq(d, 1, Len(dir)) = dir

\* os.RemoveAll(dir) on the directories dirs
RemoveAll(dirs, dir) == { d \in dirs : ~Below(d, dir) }

\* CleanupTempAgeKeyFile(keyFile) on the directories dirs; removeOk tells
\* whether os.RemoveAll succeeds
CleanupTempAgeKeyFile(keyFile, dirs, removeOk) ==
    LET dir == Dir(keyFile) IN
    IF IsTempDir(dir)
    THEN [dirs |-> IF removeOk THEN RemoveAll(dirs, dir) ELSE dirs, err |-> ~removeOk]
    ELSE [dirs |-> dirs, err |-> TRUE]

\* the directories there may be: one of each name, and directories inside
\* a temporary directory and inside another one
Directories ==
    { <<n>> : n \in DirNames }
    \cup { <<TempDirPrefix \o <<"1">>, <<"d">> >>, << <<"d">>, TempDirPrefix \o <<"1">> >>,
           << <<"d">>, <<"d">> >> }

\* up to three directories, each with the one above it
DirTrees ==
    { t \in SUBSET Directories :
        /\ Cardinality(t) <= 3
        /\ \A d \in t : Len(d) = 2 => <<d[1]>> \in t }

\* the key file paths handed to CleanupTempAgeKeyFile: a file name after up
\* to two elements, or after a/../b
KeyFilePaths ==
    { Append(p, <<"k">>) :
        p \in SeqsUpTo(PathElements, 2)
              \cup { <<a, <<".", ".">>, b>> : a, b \in {TempDirPrefix \o <<"1">>, <<"d">>} } }

InitCleanup ==
    /\ config = <<>>
    /\ cfgFile = AbsentFile
    /\ files \in DirTrees
    /\ batch = NoBatch
    /\ last = [op |-> "none"]

\* one call of CleanupTempAgeKeyFile, the first or one after a call that
\* removed something (a call that removed nothing leaves directories that
\* are an initial state too)
Cleanup ==
    /\ last.op = "cleanup" => (~last.err /\ files # {})
    /\ \E keyFile \in KeyFilePaths, removeOk \in BOOLEAN :
          LET res == CleanupTempAgeKeyFile(keyFile, files, removeOk)
          IN /\ files' = res.dirs
             /\ last' = [op |-> "cleanup", keyFile |-> keyFile, err |-> res.err,
                         removeOk |-> removeOk]
    /\ UNCHANGED <<config, cfgFile, batch>>

NextCleanup == Cleanup

SpecCleanup == InitCleanup /\ [][NextCleanup]_vars

\* the last element of the parent directory of a key file path starts with
\* the marker prefix
Marked(name) ==
    /\ Len(name) >= Len(TempDirPrefix)
    /\ \A i \in 1..Len(TempDirPrefix) : name[i] = TempDirPrefix[i]

\* the directory a Cleanup call is about, by its path
ParentOf(keyFile) == Dir(keyFile)

\* a Cleanup call removes the parent directory iff its base name starts with
\* the marker prefix, and otherwise returns an error and removes nothing
RemovesIffMarked ==
    LET dir == ParentOf(last'.keyFile) IN
    IF dir # <<>> /\ Marked(dir[Len(dir)])
    THEN last'.removeOk => (~last'.err /\ dir \notin files'
                            /\ \A d \in files : ~Below(d, dir) => d \in files')
    ELSE last'.err /\ files' = files

\* C24 as stated: ..., so no Cleanup call ever deletes a directory that
\* lacks the marker prefix.
C24_OnlyMarkedDeleted ==
    [][last'.op = "cleanup" =>
          /\ RemovesIffMarked
          /\ files' \subseteq files
          /\ \A d \in files \ files' : d # <<>> /\ Marked(d[Len(d)])]_vars

\* C24: Cleanup(path) removes the parent directory of path, with all it
\* holds, iff the directory's base name starts with 'simple-sops-'; for any
\* other path it returns an error and removes nothing, so no sequence of
\* Cleanup calls ever deletes a directory that neither has the marker prefix
\* nor lies inside a directory that has it.
C24_OnlyMarkedTreesDeleted ==
    [][last'.op = "cleanup" =>
          /\ RemovesIffMarked
          /\ files' \subseteq files
          /\ \A d \in files \ files' :
                \E n \in 1..Len(d) : Marked(d[n])]_vars

C24_Witness ==
    /\ last.op = "cleanup"
    /\ ~last.err
    /\ Len(last.keyFile) = 2
    /\ Marked(last.keyFile[1])
    /\ <<last.keyFile[1]>> \notin files
    /\ files # {}

---------------------------------------------------------------------------
(* gen-key *)

\* what a gen-key invocation meets: config.LoadConfig, os.UserHomeDir,
\* os.MkdirAll of a missing directory, age-keygen and os.WriteFile
\* succeeding or not
GenEnvs == [configOk : BOOLEAN, homeOk : BOOLEAN, dirExists : BOOLEAN,
            mkdirOk : BOOLEAN, keygenOk : BOOLEAN, writeOk : BOOLEAN]

\* GenerateAgeKey(keyFile) on the key files disk (path -> "absent", "old",
\* "new" or "partial"): the error and the key files afterwards
GenerateAgeKey(keyFile, disk, env) ==
    LET expanded == expandPath(keyFile, env.homeOk)
        path     == expanded.path
    IN IF expanded.err THEN {[err |-> "home", disk |-> disk]}
       ELSE IF ~env.dirExists /\ ~env.mkdirOk THEN {[err |-> "mkdir", disk |-> disk]}
       ELSE IF disk[path] # "absent" THEN {[err |-> "exists", disk |-> disk]}
       ELSE IF ~env.keygenOk THEN {[err |-> "keygen", disk |-> disk]}
       ELSE IF ~env.writeOk
       THEN { [err |-> "write", disk |-> [disk EXCEPT ![path] = left]] :
                left \in {"absent", "partial"} }
       ELSE {[err |-> "", disk |-> [disk EXCEPT ![path] = "new"]]}

\* the gen-key command: LoadConfig, the key file of the flag, ExpandPath,
\* the check for an existing file unless --force, GenerateAgeKey
GenerateKeyCmd(keyFile, force, disk, env) ==
    LET expanded == expandPath(keyFile, env.homeOk) IN
    IF ~env.configOk THEN {[err |-> "config", disk |-> disk]}
    ELSE IF expanded.err THEN {[err |-> "home", disk |-> disk]}
    ELSE IF disk[expanded.path] # "absent" /\ ~force
    THEN {[err |-> "existsNoForce", disk |-> disk]}
    ELSE GenerateAgeKey(keyFile, disk, env)

InitGenKey ==
    /\ config = <<>>
    /\ cfgFile = AbsentFile
    /\ files \in [KeyPaths -> {"absent", "old"}]
    /\ batch = NoBatch
    /\ last = [op |-> "none"]

\* one invocation of gen-key; the directory of an existing key file exists
GenKey ==
    /\ \E keyFile \in KeyFileArgs \ {Empty}, force \in BOOLEAN, env \in GenEnvs :
          \E res \in GenerateKeyCmd(keyFile, force, files, env) :
             /\ (\E p \in KeyPaths : files[p] # "absent") => env.dirExists
             /\ files' = res.disk
             /\ last' = [op |-> "genKey", keyFile |-> keyFile, force |-> force,
                         env |-> env, err |-> res.err]
    /\ UNCHANGED <<config, cfgFile, batch>>

NextGenKey == GenKey

SpecGenKey == InitGenKey /\ [][NextGenKey]_vars

\* the path a key file argument stands for
TargetPath(keyFile) ==
    IF keyFile[1] = "~" THEN Home \o Tail(keyFile) ELSE keyFile

\* C25: when a key file already exists at the target path, gen-key --force
\* succeeds and the file holds the newly generated key, while gen-key
\* without --force fails and leaves the existing file unchanged.  (Only
\* invocations on which the configuration, the home directory, age-keygen
\* and the write do not fail are looked at.)
C25_ForceOverwrites ==
    [][(/\ last'.op = "genKey"
        /\ last'.env.configOk /\ last'.env.homeOk
        /\ last'.env.keygenOk /\ last'.env.writeOk
        /\ files[TargetPath(last'.keyFile)] # "absent")
       => IF last'.force
          THEN last'.err = "" /\ files'[TargetPath(last'.keyFile)] = "new"
          ELSE last'.err # "" /\ files' = files]_vars

---------------------------------------------------------------------------
(* ParseRunCommand *)

\* strings.Fields(s): the maximal runs of characters that are not white space
RECURSIVE Fields(_)
Fields(s) ==
    IF s = Empty THEN <<>>
    ELSE IF IsSpace(s[1]) THEN Fields(Tail(s))
    ELSE LET spaces == { i \in 1..Len(s) : IsSpace(s[i]) }
             stop   == IF spaces = {} THEN Len(s) + 1
                       ELSE CHOOSE i \in spaces : \A j \in spaces : i <= j
         IN <<SubSeq(s, 1, stop - 1)>> \o Fields(SubSeq(s, stop, Len(s)))

\* isCommand(arg): a leading quote or dash makes it a command, a path (an
\* absolute one, ".", "..", or one that is not its own base name) makes it
\* none, and otherwise exec.LookPath decides; inPath are the names LookPath
\* finds
isCommand(arg, inPath) ==
    IF arg # Empty /\ arg[1] \in {"\"", "'", "-"} THEN TRUE
    ELSE IF arg = Empty \/ arg \in {<<".">>, <<".", ".">>} \/ Contains(arg, "/")
    THEN FALSE
    ELSE arg \in inPath

\* what a call gives: its results, an error, or an index out of range
Parsed(encryptedFile, outputFile, command, commandArgs) ==
    [err |-> FALSE, panic |-> FALSE, encryptedFile |-> encryptedFile,
     outputFile |-> outputFile, command |-> command, commandArgs |-> commandArgs]

ParseFailed(panic) ==
    [err |-> ~panic, panic |-> panic, encryptedFile |-> Empty,
     outputFile |-> Empty, command |-> Empty, commandArgs |-> <<>>]

\* ParseRunCommand(args)
ParseRunCommand(args, inPath) ==
    IF Len(args) < 2 THEN ParseFailed(FALSE)
    ELSE LET withOut == Len(args) > 2 /\ ~isCommand(args[2], inPath)
             pos     == IF withOut THEN 3 ELSE 2
             rest    == SubSeq(args, pos + 1, Len(args))
             parts   == Fields(args[pos])
         IN IF Contains(args[pos], " ")
            THEN IF parts = <<>> THEN ParseFailed(TRUE)
                 ELSE Parsed(args[1], IF withOut THEN args[2] ELSE Empty,
                             parts[1], Tail(parts) \o rest)
            ELSE Parsed(args[1], IF withOut THEN args[2] ELSE Empty, args[pos], rest)

\* arguments: a command name, a file name, a flag, a command with an
\* argument, one with more white space, a blank, a path
RunArgs ==
    { <<"c">>, <<"o">>, <<"-", "f">>, <<"c", " ", "x">>,
      <<" ", "c", " ", "\t", "x", " ">>, <<" ">>, <<"d", "/", "o">> }

InitParse ==
    /\ config = <<>>
    /\ cfgFile = AbsentFile
    /\ files = AllPlain
    /\ batch = NoBatch
    /\ last \in [op : {"parseCall"}, args : SeqsUpTo(RunArgs, MaxArgs),
                 inPath : SUBSET { <<"c">>, <<"o">> }]

\* one call of ParseRunCommand
Parse ==
    /\ last.op = "parseCall"
    /\ last' = [op |-> "parse", args |-> last.args, inPath |-> last.inPath,
                res |-> ParseRunCommand(last.args, last.inPath)]
    /\ UNCHANGED <<config, cfgFile, files, batch>>

NextParse == Parse

SpecParse == InitParse /\ [][NextParse]_vars

\* C26: fewer than two arguments is an error; otherwise the first argument
\* is the encrypted file; the output file is the second argument only when
\* there are more than two arguments and the second is not command-like, and
\* is empty otherwise; the argument in command position is split on white
\* space when it contains spaces, its first field being the command and its
\* other fields preceding all later arguments.
C26_ParseRunCommand ==
    last.op = "parse" =>
        LET args    == last.args
            res     == last.res
            n       == Len(args)
            hasOut  == n > 2 /\ ~isCommand(args[2], last.inPath)
            pos     == IF hasOut THEN 3 ELSE 2
            later   == [i \in 1..(n - pos) |-> args[pos + i]]
            fields  == Fields(args[pos])
        IN IF n < 2 THEN res.err
           ELSE /\ ~res.err /\ ~res.panic
                /\ res.encryptedFile = args[1]
                /\ res.outputFile = (IF hasOut THEN args[2] ELSE Empty)
                /\ IF \E i \in 1..Len(args[pos]) : args[pos][i] = " "
                   THEN /\ fields # <<>>
                        /\ res.command = fields[1]
                        /\ res.commandArgs = Tail(fields) \o later
                   ELSE res.command = args[pos] /\ res.commandArgs = later

---------------------------------------------------------------------------
(* The encrypt loop in two steps per file: the rule file, then sops *)

MayEncryptAnyway(why) == why \in {"ok", "save"}

\* whether the loop body goes on to sops --encrypt after the steps on the
\* rule file ended with why
MayEncrypt(why) == why = "ok"

\* the first part of the loop body for the next file: os.Stat, (single key:
\* GetPublicKeyFromFile,) LoadSopsConfig, AddCreationRule[WithMultipleKeys],
\* SaveSopsConfig; a failure is recorded and the loop goes on with the next
\* file
Reconcile ==
    /\ batch.kind \in {"encrypt", "encryptMulti"}
    /\ batch.pc = "loop"
    /\ batch.todo # <<>>
    /\ last.op # "reconciled"
    /\ \E fail \in StepFailures \ {"sops"} :
          LET filePath == Head(batch.todo)
              pubKey   == IF batch.kind = "encrypt"
                          THEN GetPublicKeyFromFile(
                                   IF fail = "publicKey" THEN ReadFailed
                                   ELSE ReadOk(batch.keyContent))
                          ELSE [key |-> batch.pubKeyStr, err |-> FALSE]
              loaded   == LoadSopsConfig(cfgFile, fail # "load")
              rules    == IF batch.kind = "encrypt"
                          THEN AddCreationRule(loaded.rules, Base(filePath), pubKey.key, Empty)
                          ELSE AddCreationRuleWithMultipleKeys(loaded.rules, Base(filePath),
                                                               pubKey.key, Empty)
              why      == IF files[filePath] = "absent" THEN "notFound"
                          ELSE IF pubKey.err THEN "publicKey"
                          ELSE IF loaded.err THEN "load"
                          ELSE IF fail = "save" THEN "save"
                          ELSE "ok"
          IN /\ batch.kind = "encryptMulti" => fail # "publicKey"
             /\ config' = IF why \in {"save", "ok"} THEN rules ELSE config
             /\ cfgFile' \in IF why = "ok" THEN {Marshal(rules)}
                             ELSE IF why = "save" THEN AfterFailedWrite(cfgFile)
                             ELSE {cfgFile}
             /\ IF MayEncrypt(why)
                THEN /\ batch' = batch
                     /\ last' = [op |-> "reconciled", file |-> filePath, why |-> why]
                ELSE /\ batch' = [batch EXCEPT
                                     !.todo = Tail(@),
                                     !.results = Append(@, FileResult(filePath, why)),
                                     !.err = Recorded(@, FileResult(filePath, why))]
                     /\ last' = [op |-> "file", file |-> filePath, why |-> why]
    /\ UNCHANGED files

\* the second part: sops --encrypt --in-place on the file, refused for a
\* file that is encrypted already
ExternalEncrypt ==
    /\ batch.pc = "loop"
    /\ last.op = "reconciled"
    /\ \E sopsOk \in BOOLEAN :
          LET filePath == last.file
              why      == IF sopsOk /\ files[filePath] # "enc" THEN "ok" ELSE "sops"
          IN /\ files' = IF why = "ok" THEN [files EXCEPT ![filePath] = "enc"] ELSE files
             /\ batch' = [batch EXCEPT
                             !.todo = Tail(@),
                             !.results = Append(@, FileResult(filePath, why)),
                             !.err = Recorded(@, FileResult(filePath, why))]
             /\ last' = [op |-> "external", file |-> filePath, why |-> why]
    /\ UNCHANGED <<config, cfgFile>>

InitOrchestrate ==
    /\ config = <<>>
    /\ cfgFile \in {AbsentFile, RulesOnDisk}
    /\ files \in [FileNames -> {"plain", "absent"}]
    /\ batch = NoBatch
    /\ last = [op |-> "none"]

NextOrchestrate ==
    \/ EncryptBegin \/ EncryptMultiBegin
    \/ Reconcile \/ ExternalEncrypt
    \/ BatchEnd

SpecOrchestrate == InitOrchestrate /\ [][NextOrchestrate]_vars

\* the rule file holds a rule under the name
RuleOnDisk(file, name) ==
    \E i \in 1..Len(file.entries) :
       \E j \in 1..Len(file.entries[i]) :
          file.entries[i][j] = <<"path_regex", name>>

---------------------------------------------------------------------------
(* Two invocations of encrypt at the same time *)

\* the two invocations
Procs == {1, 2}

\* an invocation of EncryptFile on filePath before its first step, with the
\* public key of its key file
Invocation(filePath, pubKey) ==
    [pc |-> "load", file |-> filePath, key |-> pubKey, rules |-> <<>>]

\* LoadSopsConfig and AddCreationRule of invocation p: the rule file is
\* read and the rule is added to the copy in memory
ProcLoad(p) ==
    /\ batch.kind = "concurrent"
    /\ batch.procs[p].pc = "load"
    /\ LET me     == batch.procs[p]
           loaded == LoadSopsConfig(cfgFile, TRUE)
       IN /\ ~loaded.err
          /\ batch' = [batch EXCEPT
                          !.procs[p].pc = "save",
                          !.procs[p].rules =
                              AddCreationRule(loaded.rules, Base(me.file), me.key, Empty)]
    /\ last' = [op |-> "procLoad", proc |-> p]
    /\ UNCHANGED <<config, cfgFile, files>>

\* SaveSopsConfig of invocation p, first half: os.WriteFile opens the rule
\* file and truncates it
ProcTruncate(p) ==
    /\ batch.kind = "concurrent"
    /\ batch.procs[p].pc = "save"
    /\ cfgFile' = EmptyFile
    /\ batch' = [batch EXCEPT !.procs[p].pc = "write"]
    /\ last' = [op |-> "procTruncate", proc |-> p]
    /\ UNCHANGED <<config, files>>

\* SaveSopsConfig of invocation p, second half: the document is written
ProcWrite(p) ==
    /\ batch.kind = "concurrent"
    /\ batch.procs[p].pc = "write"
    /\ cfgFile' = Marshal(batch.procs[p].rules)
    /\ batch' = [batch EXCEPT !.procs[p].pc = "sops"]
    /\ last' = [op |-> "procWrite", proc |-> p]
    /\ UNCHANGED <<config, files>>

\* sops --encrypt --in-place of invocation p
ProcEncrypt(p) ==
    /\ batch.kind = "concurrent"
    /\ batch.procs[p].pc = "sops"
    /\ files' = [files EXCEPT ![batch.procs[p].file] = "enc"]
    /\ batch' = [batch EXCEPT !.procs[p].pc = "done"]
    /\ last' = [op |-> "procEncrypt", proc |-> p]
    /\ UNCHANGED <<config, cfgFile>>

\* rule files the two invocations may find
SharedRuleFiles ==
    { AbsentFile, RulesOnDisk,
      Marshal(AddCreationRule(<<>>, <<"b", ".", "e", "n", "v">>, <<"K">>, Empty)) }

InitConcurrent ==
    /\ config = <<>>
    /\ cfgFile \in SharedRuleFiles
    /\ files = AllPlain
    /\ \E f1, f2 \in FileNames, k1, k2 \in { <<"K">>, <<"L">> } :
          /\ f1 # f2
          /\ batch = [kind |-> "concurrent", pc |-> "run", prepared |-> TRUE,
                      procs |-> [p \in Procs |->
                                    IF p = 1 THEN Invocation(f1, k1)
                                    ELSE Invocation(f2, k2)]]
    /\ last = [op |-> "none"]

NextConcurrent ==
    \E p \in Procs :
       ProcLoad(p) \/ ProcTruncate(p) \/ ProcWrite(p) \/ ProcEncrypt(p)

SpecConcurrent == InitConcurrent /\ [][NextConcurrent]_vars

\* C28: two invocations of encrypt that run concurrently on different files
\* and share one rule file do not lose updates: after both have completed,
\* whatever the interleaving of their load, AddRule and save steps, the
\* persisted rule file contains a rule for each of the two files.
C28_NoLostUpdate ==
    (batch.kind = "concurrent" /\ \A p \in Procs : batch.procs[p].pc = "done") =>
        \A p \in Procs : RuleOnDisk(cfgFile, batch.procs[p].file)

---------------------------------------------------------------------------
(* encrypt and clean-config from different working directories *)

\* the working directories, as prefixes of a path below the repository
\* root: the root itself and a directory in it
WorkDirs == { <<>>, <<"s", "/">> }

\* the files of the repository, as paths below its root
RepoFiles == { d \o n : d \in WorkDirs, n \in FileNames }

\* the file arguments that name a file of the repository from the working
\* directory cwd: a name in cwd, or a path into a directory below it
FileArgs(cwd) == { a \in RepoFiles \cup FileNames : cwd \o a \in RepoFiles }

\* os.Stat of every file name, resolved against the working directory cwd
StatIn(disk, cwd) ==
    [n \in FileNames |-> IF disk[cwd \o n] # "absent" THEN "ok" ELSE "ENOENT"]

\* EncryptFile(filePath, keyFile, configPath) run in cwd, the rule file being
\* the one of the repository root
EncryptIn ==
    \E cwd \in WorkDirs :
      \E filePath \in FileArgs(cwd) :
        LET target == cwd \o filePath
            loaded == LoadSopsConfig(cfgFile, TRUE)
        IN /\ batch.kind = "relocate"
           /\ IF files[target] = "absent"
              THEN /\ last' = [op |-> "encryptIn", cwd |-> cwd, err |-> "notfound"]
                   /\ UNCHANGED <<config, cfgFile, files, batch>>
              ELSE IF loaded.err
              THEN /\ last' = [op |-> "encryptIn", cwd |-> cwd, err |-> "load"]
                   /\ UNCHANGED <<config, cfgFile, files, batch>>
              ELSE /\ cfgFile' = Marshal(AddCreationRule(loaded.rules, Base(filePath),
                                                         <<"K">>, Empty))
                   /\ IF files[target] = "plain"
                      THEN /\ files' = [files EXCEPT ![target] = "enc"]
                           /\ batch' = [batch EXCEPT !.recorded = @ \cup {target}]
                           /\ last' = [op |-> "encryptIn", cwd |-> cwd, err |-> "none"]
                      ELSE /\ batch' = [batch EXCEPT !.recorded = @ \cup {target}]
                           /\ last' = [op |-> "encryptIn", cwd |-> cwd, err |-> "sops"]
                           /\ UNCHANGED files
                   /\ UNCHANGED config

\* the RunE of CleanConfigCmd, run in cwd: confirm and removeFile are the
\* answers to its two questions
CleanConfigCmd ==
    \E cwd \in WorkDirs, confirm, removeFile \in BOOLEAN :
        LET loaded == LoadSopsConfig(cfgFile, TRUE)
            res    == CleanOrphanedRules(loaded.rules, StatIn(files, cwd))
        IN /\ batch.kind = "relocate"
           /\ IF loaded.err \/ loaded.rules = <<>> \/ res.count = 0 \/ ~confirm
              THEN cfgFile' = cfgFile
              ELSE IF res.rules = <<>> /\ removeFile
                   THEN cfgFile' = AbsentFile
                   ELSE cfgFile' = Marshal(res.rules)
           /\ last' = [op |-> "cleanConfig", cwd |-> cwd,
                       err |-> IF loaded.err THEN "load" ELSE "none"]
           /\ UNCHANGED <<config, files, batch>>

\* a file of the repository is deleted
DeleteFile ==
    \E f \in RepoFiles :
        /\ batch.kind = "relocate"
        /\ files[f] # "absent"
        /\ files' = [files EXCEPT ![f] = "absent"]
        /\ batch' = [batch EXCEPT !.recorded = @ \ {f}]
        /\ last' = [op |-> "deleteFile", cwd |-> <<>>, err |-> "none"]
        /\ UNCHANGED <<config, cfgFile>>

InitRelocate ==
    /\ config = <<>>
    /\ cfgFile = AbsentFile
    /\ files \in [RepoFiles -> {"plain", "absent"}]
    /\ batch = [kind |-> "relocate", pc |-> "run", prepared |-> TRUE, recorded |-> {}]
    /\ last = [op |-> "none", cwd |-> <<>>, err |-> "none"]

NextRelocate == EncryptIn \/ CleanConfigCmd \/ DeleteFile

SpecRelocate == InitRelocate /\ [][NextRelocate]_vars

\* C29: a rule recorded by encrypting a file is never pruned while that
\* file still exists: for every file location and working directory the
\* rule of a still-existing encrypted file survives clean-config.
C29_RuleOfExistingFileSurvives ==
    [][last'.op = "cleanConfig" =>
          \A f \in batch.recorded :
              (files[f] # "absent" /\ RuleOnDisk(cfgFile, Base(f)))
                  => RuleOnDisk(cfgFile', Base(f))]_vars

---------------------------------------------------------------------------
(* Target files that do not exist: encrypt and set-keys *)

\* filepath.Ext(path): the suffix from the last dot of the last element on
RECURSIVE Ext(_)
Ext(path) ==
    LET name == Base(path)
        i    == Index(name, ".")
    IN IF i < 0 THEN Empty
       ELSE LET rest == SubSeq(name, i + 2, Len(name)) IN
            IF Contains(rest, ".") THEN Ext(rest) ELSE SubSeq(name, i + 1, Len(name))

\* supportedExts of SetEncryptionKeys
SupportedExts ==
    { <<".", "y", "a", "m", "l">>, <<".", "y", "m", "l">>, <<".", "j", "s", "o", "n">>,
      <<".", "i", "n", "i">>, <<".", "e", "n", "v">> }

\* a file of a type set-keys does not support; it exists
TextFile == <<"a", ".", "t", "x", "t">>

\* the files set-keys is called on
SetKeysArgs == FileNames \cup {TextFile}

\* the state of a file on disk
StateOf(disk, filePath) == IF filePath \in DOMAIN disk THEN disk[filePath] ELSE "plain"

\* the step of SetEncryptionKeys that fails first, if any
SetKeysFailures == {"none", "publicKey", "configPath", "load", "save"}

\* what SetEncryptionKeys returns with: the error, the rules in memory, the
\* rule files it may leave and what became of the key
SetKeysResult(why, rules, left, keyResolved, isTemp) ==
    [why |-> why, rules |-> rules, left |-> left, keyResolved |-> keyResolved,
     isTemp |-> isTemp]

SetEncryptionKeysUnchecked(filePath, k, encryptedRegex, state, file, fail) ==
    LET key    == BatchKey(k)
        pubKey == GetPublicKeyFromFile(IF fail = "publicKey" THEN ReadFailed
                                       ELSE ReadOk(key.content))
        loaded == LoadSopsConfig(file, fail # "load")
        rules  == AddCreationRule(loaded.rules, Base(filePath), pubKey.key, encryptedRegex)
    IN IF Ext(filePath) \notin SupportedExts
       THEN SetKeysResult("unsupported", <<>>, {file}, FALSE, FALSE)
       ELSE IF key.err # ""
       THEN SetKeysResult(key.err, <<>>, {file}, TRUE, FALSE)
       ELSE IF pubKey.err
       THEN SetKeysResult("publicKey", <<>>, {file}, TRUE, key.isTemp)
       ELSE IF fail = "configPath"
       THEN SetKeysResult("configPath", <<>>, {file}, TRUE, key.isTemp)
       ELSE IF loaded.err
       THEN SetKeysResult("load", <<>>, {file}, TRUE, key.isTemp)
       ELSE IF fail = "save"
       THEN SetKeysResult("save", rules, AfterFailedWrite(file), TRUE, key.isTemp)
       ELSE SetKeysResult("ok", rules, {Marshal(rules)}, TRUE, key.isTemp)

\* SetEncryptionKeys(filePath, keyFile, encryptedRegex, alwaysUseOnePassword)
\* on a file in the given state, the rule file being file: os.Stat, the
\* check of the extension, EnsureAgeKey, GetPublicKeyFromFile,
\* GetSopsConfigPath, LoadSopsConfig, AddCreationRule under the base name,
\* SaveSopsConfig; sops is not run
SetEncryptionKeys(filePath, k, encryptedRegex, state, file, fail) ==
    LET key    == BatchKey(k)
        pubKey == GetPublicKeyFromFile(IF fail = "publicKey" THEN ReadFailed
                                       ELSE ReadOk(key.content))
        loaded == LoadSopsConfig(file, fail # "load")
        rules  == AddCreationRule(loaded.rules, Base(filePath), pubKey.key, encryptedRegex)
    IN IF state = "absent"
       THEN SetKeysResult("notFound", <<>>, {file}, FALSE, FALSE)
       ELSE IF Ext(filePath) \notin SupportedExts
       THEN SetKeysResult("unsupported", <<>>, {file}, FALSE, FALSE)
       ELSE IF key.err # ""
       THEN SetKeysResult(key.err, <<>>, {file}, TRUE, FALSE)
       ELSE IF pubKey.err
       THEN SetKeysResult("publicKey", <<>>, {file}, TRUE, key.isTemp)
       ELSE IF fail = "configPath"
       THEN SetKeysResult("configPath", <<>>, {file}, TRUE, key.isTemp)
       ELSE IF loaded.err
       THEN SetKeysResult("load", <<>>, {file}, TRUE, key.isTemp)
       ELSE IF fail = "save"
       THEN SetKeysResult("save", rules, AfterFailedWrite(file), TRUE, key.isTemp)
       ELSE SetKeysResult("ok", rules, {Marshal(rules)}, TRUE, key.isTemp)

\* one call of SetEncryptionKeys, the deferred removal of a temporary key
\* bundle included
SetKeys ==
    /\ batch.pc = "idle"
    /\ \E filePath \in SetKeysArgs, k \in BatchKeyInputs, encryptedRegex \in Regexes,
          fail \in SetKeysFailures :
          LET res == SetEncryptionKeys(filePath, k, encryptedRegex,
                                       StateOf(files, filePath), cfgFile, fail)
          IN /\ config' = IF res.why \in {"save", "ok"} THEN res.rules ELSE config
             /\ cfgFile' \in res.left
             /\ batch' = [Finished("setKeys", <<filePath>>, FileResult(filePath, res.why),
                                   res.keyResolved)
                             EXCEPT !.isTemp = res.isTemp,
                                    !.results = <<FileResult(filePath, res.why)>>]
             /\ last' = [op |-> "setKeys", file |-> filePath, why |-> res.why]
    /\ UNCHANGED files

NextTargets == NextOrchestrate \/ SetKeys

SpecTargets == InitOrchestrate /\ [][NextTargets]_vars

\* C30: when a target file of encrypt or set-keys does not exist, the
\* operation reports "file not found" for that file, the persisted rule
\* file is left unchanged by that file's processing, and the external
\* encryption tool is not invoked for it.
C30_MissingTarget ==
    [][/\ (/\ last'.op \in {"file", "reconciled", "setKeys"}
           /\ StateOf(files, last'.file) = "absent") =>
              (/\ last'.op # "reconciled"
               /\ last'.why = "notFound"
               /\ batch'.results[Len(batch'.results)] = FileResult(last'.file, "notFound")
               /\ cfgFile' = cfgFile
               /\ files' = files)
       /\ last'.op = "external" => StateOf(files, last'.file) # "absent"]_vars

C30_Witness ==
    /\ batch.kind = "encryptMulti"
    /\ batch.pc = "done"
    /\ Len(batch.results) = 2
    /\ batch.results[1].why = "notFound"
    /\ batch.results[2].why = "ok"
    /\ files[batch.filePaths[1]] = "absent"
    /\ files[batch.filePaths[2]] = "enc"
    /\ ~RuleOnDisk(cfgFile, batch.filePaths[1])
    /\ RuleOnDisk(cfgFile, batch.filePaths[2])

====
